---- MODULE Spec2Model ----
(***************************************************************************)
(* Red-black tree engine of dsav-core (structures/rb_tree.rs).             *)
(*                                                                         *)
(* The Rc<RefCell<Node>> graph is modelled as a heap `nodes`: a function   *)
(* from node handles to node records.  A handle is the value the node was  *)
(* created with (Node::new(value)); NIL stands for Option::None.  Every    *)
(* procedure of the source is an operator from a tree record               *)
(* [root, size, nodes] to a tree record (or to a record that also carries  *)
(* the Steps pushed so far), written statement by statement.               *)
(***************************************************************************)
EXTENDS Integers, Sequences, FiniteSets, TLC

\* Number of distinct values the callers draw from.
MaxVal == 7

\* The values callers insert and delete: the ones of the deletion scenario
\* (50,30,70,20,40,60,80) first, then those of the insertion tests.
ValueList == <<50, 30, 70, 20, 40, 60, 80, 25, 75, 10>>

Values == {ValueList[i] : i \in 1..MaxVal}

\* The same values with those of the insertion tests first: 50, 25, 75, 10
\* (uncle red), 50, 25, 30 (triangle) and 50, 25, 10 (line).
FixupList == <<50, 25, 75, 10, 30, 60, 80, 20, 40, 70>>

FixupValues == {FixupList[i] : i \in 1..MaxVal}

\* The handles of the heap: one slot for each value a caller may ever pass.
Handles == {ValueList[i] : i \in 1..Len(ValueList)}

\* Option::None for a node handle.
NIL == 0

\* A heap slot that holds no node.
NoNode == [value |-> 0, color |-> "Black", left |-> NIL, right |-> NIL, parent |-> NIL]

VARIABLES
    root,    \* VisualizableRBTree.root
    size,    \* VisualizableRBTree.size
    nodes,   \* the heap: handle -> Node
    last,    \* the most recent call: its name, argument, result and Steps
    trip,    \* observer: an insert of a value and the delete of it that follows
    bst,     \* a VisualizableBST: root, size and the heap of its nodes
    stack,   \* a VisualizableStack: data and capacity
    queue,   \* a VisualizableQueue: data and capacity
    arr,     \* the slice handed to the sorting functions
    hist,    \* observer: the values accepted and handed back by stack or queue
    app      \* the step player of the GUI: the playback fields of DsavApp

vars == <<root, size, nodes, last, trip, bst, stack, queue, arr, hist, app>>

\* The red-black tree and its observer.
rbvars == <<root, size, nodes, trip>>

\* The objects beside the red-black tree.
others == <<bst, stack, queue, arr, hist, app>>

\* The tree as one record, the `self` of the methods.
Tree == [root |-> root, size |-> size, nodes |-> nodes]

EmptyTree == [root |-> NIL, size |-> 0, nodes |-> [h \in Handles |-> NoNode]]

\* Node::new: a Red node without links.
NewNode(value) == [value |-> value, color |-> "Red", left |-> NIL, right |-> NIL, parent |-> NIL]

\* Node::is_red: None is not red.
IsRed(n, x) == x # NIL /\ n[x].color = "Red"

IsBlack(n, x) == ~IsRed(n, x)

----------------------------------------------------------------------------
(* Field assignments.  Each is one `borrow_mut()` statement of the source;  *)
(* the ...Opt forms are the `if let Some(n) = ... { n.borrow_mut()... }`.   *)

SetColor(t, x, c) == [t EXCEPT !.nodes[x].color = c]

SetLeft(t, x, v) == [t EXCEPT !.nodes[x].left = v]

SetRight(t, x, v) == [t EXCEPT !.nodes[x].right = v]

SetParent(t, x, v) == [t EXCEPT !.nodes[x].parent = v]

SetRoot(t, r) == [t EXCEPT !.root = r]

SetColorOpt(t, x, c) == IF x = NIL THEN t ELSE SetColor(t, x, c)

SetParentOpt(t, x, v) == IF x = NIL THEN t ELSE SetParent(t, x, v)

IncSize(t) == [t EXCEPT !.size = @ + 1]

DecSize(t) == [t EXCEPT !.size = @ - 1]

----------------------------------------------------------------------------
(* Rotations and transplant *)

\* "Link x's parent to y" of rotate_left and the slot update of transplant:
\* the root slot when there is no parent, else the left link if it holds
\* `old`, else the right link.
ReplaceChildL(t, p, old, new) ==
    IF p = NIL THEN SetRoot(t, new)
    ELSE IF t.nodes[p].left = old THEN SetLeft(t, p, new)
    ELSE SetRight(t, p, new)

\* The same of rotate_right, which looks at the right link first.
ReplaceChildR(t, p, old, new) ==
    IF p = NIL THEN SetRoot(t, new)
    ELSE IF t.nodes[p].right = old THEN SetRight(t, p, new)
    ELSE SetLeft(t, p, new)

\* rotate_left that leaves the parent field of y's left child as it was.
RotateLeftInnerKeepsParent(t, x, y) == SetRight(t, x, t.nodes[y].left)

\* rotate_left, first part: y's left subtree becomes x's right subtree.
RotateLeftInner(t, x, y) ==
    SetParentOpt(SetRight(t, x, t.nodes[y].left), t.nodes[y].left, x)

\* rotate_left, second part: y takes x's place and x goes on y's left.
RotateLeftLink(t, x, y) ==
    SetParent(SetLeft(ReplaceChildL(SetParent(t, y, t.nodes[x].parent),
                                    t.nodes[x].parent, x, y),
                      y, x),
              x, y)

RotateLeft(t, x) ==
    IF t.nodes[x].right = NIL THEN t
    ELSE RotateLeftLink(RotateLeftInner(t, x, t.nodes[x].right), x, t.nodes[x].right)

RotateRightInner(t, x, y) ==
    SetParentOpt(SetLeft(t, x, t.nodes[y].right), t.nodes[y].right, x)

RotateRightLink(t, x, y) ==
    SetParent(SetRight(ReplaceChildR(SetParent(t, y, t.nodes[x].parent),
                                     t.nodes[x].parent, x, y),
                       y, x),
              x, y)

RotateRight(t, x) ==
    IF t.nodes[x].left = NIL THEN t
    ELSE RotateRightLink(RotateRightInner(t, x, t.nodes[x].left), x, t.nodes[x].left)

\* transplant that also clears u's own parent field.
TransplantDetaches(t, u, v) ==
    SetParent(SetParentOpt(ReplaceChildL(t, t.nodes[u].parent, u, v), v, t.nodes[u].parent),
              u, NIL)

\* transplant that leaves v's parent back-reference as it was.
TransplantNoParent(t, u, v) ==
    ReplaceChildL(t, t.nodes[u].parent, u, v)

\* transplant(u, v): v may be NIL.
Transplant(t, u, v) ==
    SetParentOpt(ReplaceChildL(t, t.nodes[u].parent, u, v), v, t.nodes[u].parent)

RECURSIVE TreeMinimum(_, _)
TreeMinimum(n, cur) ==
    IF n[cur].left # NIL THEN TreeMinimum(n, n[cur].left) ELSE cur

RECURSIVE FindNode(_, _, _)
FindNode(n, start, value) ==
    IF start = NIL THEN NIL
    ELSE IF value = n[start].value THEN start
    ELSE IF value < n[start].value THEN FindNode(n, n[start].left, value)
    ELSE FindNode(n, n[start].right, value)

----------------------------------------------------------------------------
(* Plain insertion *)

\* The empty-tree branch that leaves the new root Red, as Node::new made it.
NewRootRed(t, value) ==
    [root  |-> value,
     size  |-> t.size + 1,
     nodes |-> [t.nodes EXCEPT ![value] = NewNode(value)]]

\* The empty-tree branch of insert and insert_with_steps: a single Black root.
NewRoot(t, value) ==
    [root  |-> value,
     size  |-> t.size + 1,
     nodes |-> [t.nodes EXCEPT ![value] = [NewNode(value) EXCEPT !.color = "Black"]]]

\* The descent of insert_bst: the last node visited, or -1 on a duplicate.
RECURSIVE BstDescend(_, _, _, _)
BstDescend(n, current, parent, value) ==
    IF current = NIL THEN parent
    ELSE IF value < n[current].value THEN BstDescend(n, n[current].left, current, value)
    ELSE IF value > n[current].value THEN BstDescend(n, n[current].right, current, value)
    ELSE -1

\* Node::new(value) with its parent field set; the handle is the value.
PutNode(t, value, parent) ==
    [t EXCEPT !.nodes[value] = [NewNode(value) EXCEPT !.parent = parent]]

\* The child link hung on the wrong side of the parent.
LinkChildWrongSide(t, parent, z) ==
    IF parent = NIL THEN t
    ELSE IF t.nodes[z].value < t.nodes[parent].value THEN SetRight(t, parent, z)
    ELSE SetLeft(t, parent, z)

\* The child link never set.
LinkChildSkipped(t, parent, z) == t

\* "if value < parent.value { parent.left = new } else { parent.right = new }"
LinkChild(t, parent, z) ==
    IF parent = NIL THEN t
    ELSE IF t.nodes[z].value < t.nodes[parent].value THEN SetLeft(t, parent, z)
    ELSE SetRight(t, parent, z)

\* The tail of insert_bst: create the Red node under `parent`.
Attach(t, parent, value) == LinkChild(PutNode(t, value, parent), parent, value)

\* insert_fixup without its closing root recolour.
RootBlackSkipped(t) == t

\* "Ensure root is black" at the end of insert_fixup.
RootBlack(t) == SetColorOpt(t, t.root, "Black")

\* Case 3 that rotates at the grandparent away from the parent's side.
InsertLineAtWrongWay(t, p, g, left) ==
    IF left THEN RotateLeft(SetColor(SetColor(t, p, "Black"), g, "Red"), g)
    ELSE RotateRight(SetColor(SetColor(t, p, "Black"), g, "Red"), g)

\* Case 3 (line): parent Black, grandparent Red, rotate at the grandparent;
\* `left` says the parent is the grandparent's left child.
InsertLineAt(t, p, g, left) ==
    IF left THEN RotateRight(SetColor(SetColor(t, p, "Black"), g, "Red"), g)
    ELSE RotateLeft(SetColor(SetColor(t, p, "Black"), g, "Red"), g)

\* Case 3 starts from current_z: its parent and grandparent are re-read.
InsertLine(t, z, left) ==
    InsertLineAt(t, t.nodes[z].parent, t.nodes[t.nodes[z].parent].parent, left)

\* Case 2 (triangle): rotate at the parent, away from the parent's side.
InsertTriangle(t, p, left) ==
    IF left THEN RotateLeft(t, p) ELSE RotateRight(t, p)

\* Case 1 that leaves the uncle Red.
InsertRecolorKeepsUncle(t, p, u, g) ==
    SetColor(SetColor(t, p, "Black"), g, "Red")

\* Case 1 (uncle red): recolour parent, uncle and grandparent.
InsertRecolor(t, p, u, g) ==
    SetColor(SetColorOpt(SetColor(t, p, "Black"), u, "Black"), g, "Red")

\* The uncle: the grandparent's other child.
Uncle(t, g, left) == IF left THEN t.nodes[g].right ELSE t.nodes[g].left

\* A fixup that never sees the triangle and treats it as the line case.
IsInnerNever(t, z, p, left) == FALSE

\* z_is_right / z_is_left: current_z is the inner grandchild.
IsInner(t, z, p, left) == IF left THEN t.nodes[p].right = z ELSE t.nodes[p].left = z

\* The loop of insert_fixup; the result is the tree when the loop exits.
RECURSIVE InsertFixupLoop(_, _)

\* One iteration once parent p (Red) and grandparent g are known.
InsertFixupCase(t, z, p, g, left) ==
    IF IsRed(t.nodes, Uncle(t, g, left))
    THEN InsertFixupLoop(InsertRecolor(t, p, Uncle(t, g, left), g), g)
    ELSE IF IsInner(t, z, p, left)
    THEN InsertLine(InsertTriangle(t, p, left), p, left)
    ELSE InsertLine(t, z, left)

\* The grandparent lookup and parent_is_left.
InsertFixupGrandparent(t, z, p) ==
    IF t.nodes[p].parent = NIL THEN t
    ELSE InsertFixupCase(t, z, p, t.nodes[p].parent, t.nodes[t.nodes[p].parent].left = p)

InsertFixupLoop(t, z) ==
    IF ~IsRed(t.nodes, t.nodes[z].parent) THEN t
    ELSE InsertFixupGrandparent(t, z, t.nodes[z].parent)

InsertFixup(t, z) == RootBlack(InsertFixupLoop(t, z))

\* insert that counts a duplicate as a new node.
InsertAtCountsDuplicate(t, parent, value) ==
    IF parent = -1 THEN IncSize(t)
    ELSE InsertFixup(IncSize(Attach(t, parent, value)), value)

\* insert after the descent: `parent` is -1 when insert_bst returned None.
InsertAt(t, parent, value) ==
    IF parent = -1 THEN t
    ELSE InsertFixup(IncSize(Attach(t, parent, value)), value)

\* insert(value)
InsertPlain(t, value) ==
    IF t.root = NIL THEN NewRoot(t, value)
    ELSE InsertAt(t, BstDescend(t.nodes, t.root, NIL, value), value)

----------------------------------------------------------------------------
(* Plain deletion *)

\* The sibling w of x: the other child of x_parent; `left` says x is the left child.
Sibling(t, xp, left) == IF left THEN t.nodes[xp].right ELSE t.nodes[xp].left

\* The sibling's child on the far side of x.
FarChild(t, w, left) == IF left THEN t.nodes[w].right ELSE t.nodes[w].left

\* The sibling's child on the side of x.
NearChild(t, w, left) == IF left THEN t.nodes[w].left ELSE t.nodes[w].right

\* Case 1 (sibling red): sibling Black, parent Red, rotate at the parent towards x.
DeleteSiblingRed(t, xp, w, left) ==
    IF left THEN RotateLeft(SetColor(SetColor(t, w, "Black"), xp, "Red"), xp)
    ELSE RotateRight(SetColor(SetColor(t, w, "Black"), xp, "Red"), xp)

\* Case 3 (triangle): near nephew Black, sibling Red, rotate at the sibling away from x.
DeleteTriangle(t, w, left) ==
    IF left THEN RotateRight(SetColor(SetColorOpt(t, NearChild(t, w, left), "Black"), w, "Red"), w)
    ELSE RotateLeft(SetColor(SetColorOpt(t, NearChild(t, w, left), "Black"), w, "Red"), w)

\* Case 4 that forgets to recolour the sibling's far child.
DeleteLineColorsKeepsNephew(t, xp, w, left) ==
    SetColor(SetColor(t, w, t.nodes[xp].color), xp, "Black")

\* Case 4 (line), the recolouring: sibling takes the parent's colour, parent
\* and far nephew become Black.
DeleteLineColors(t, xp, w, left) ==
    SetColorOpt(SetColor(SetColor(t, w, t.nodes[xp].color), xp, "Black"),
                FarChild(t, w, left), "Black")

\* Case 4 (line): nothing happens when the sibling is None.
DeleteLine(t, xp, w, left) ==
    IF w = NIL THEN t
    ELSE IF left THEN RotateLeft(DeleteLineColors(t, xp, w, left), xp)
    ELSE RotateRight(DeleteLineColors(t, xp, w, left), xp)

\* x_is_left of delete_fixup: parent.left None counts as "x is left".
XIsLeft(n, x, xp) ==
    IF n[xp].left = NIL THEN TRUE
    ELSE x # NIL /\ n[xp].left = x

\* The loop condition of delete_fixup: x is not the root and x is Black
\* (None is both).
DeleteFixupGoesOn(t, x) ==
    /\ (x = NIL \/ x # t.root)
    /\ (x = NIL \/ t.nodes[x].color = "Black")

\* left_is_black && right_is_black
BothNephewsBlack(t, w) ==
    IsBlack(t.nodes, t.nodes[w].left) /\ IsBlack(t.nodes, t.nodes[w].right)

\* The loop of delete_fixup; the result is the tree and the x the loop ends with.
RECURSIVE DeleteFixupLoop(_, _, _)

\* The end of the line case: "x = self.root; break".
DeleteFixupDone(t) == [tree |-> t, x |-> t.root]

\* Case 4, with the sibling re-fetched when Case 3 (c3) rotated.
DeleteFixupCase4(t, xp, left, w0, c3) ==
    DeleteFixupDone(DeleteLine(t, xp, IF c3 THEN Sibling(t, xp, left) ELSE w0, left))

\* Cases 2 to 4 for the sibling w.
DeleteFixupCase2(t, x, xp, left, w) ==
    IF w = NIL THEN [tree |-> t, x |-> x]
    ELSE IF BothNephewsBlack(t, w)
    THEN DeleteFixupLoop(SetColor(t, w, "Red"), xp, t.nodes[xp].parent)
    ELSE DeleteFixupCase4(IF IsBlack(t.nodes, FarChild(t, w, left))
                          THEN DeleteTriangle(t, w, left) ELSE t,
                          xp, left, w, IsBlack(t.nodes, FarChild(t, w, left)))

\* After Case 1 (c1 says it ran) the sibling is re-fetched.
DeleteFixupRefetch(t, x, xp, left, w0, c1) ==
    DeleteFixupCase2(t, x, xp, left, IF c1 THEN Sibling(t, xp, left) ELSE w0)

\* Case 1 for the sibling w.
DeleteFixupCase1(t, x, xp, left, w) ==
    DeleteFixupRefetch(IF IsRed(t.nodes, w) THEN DeleteSiblingRed(t, xp, w, left) ELSE t,
                       x, xp, left, w, IsRed(t.nodes, w))

\* One iteration once the side of x is known.
DeleteFixupSide(t, x, xp, left) == DeleteFixupCase1(t, x, xp, left, Sibling(t, xp, left))

DeleteFixupLoop(t, x, xp) ==
    IF ~DeleteFixupGoesOn(t, x) THEN [tree |-> t, x |-> x]
    ELSE IF xp = NIL THEN [tree |-> t, x |-> x]
    ELSE DeleteFixupSide(t, x, xp, XIsLeft(t.nodes, x, xp))

\* "Ensure x is black" after the loop.
DeleteFixupBlacken(r) == SetColorOpt(r.tree, r.x, "Black")

\* delete_fixup
DeleteFixup(t, x, xp) == DeleteFixupBlacken(DeleteFixupLoop(t, x, xp))

\* The successor y is not z's own right child.
IsDeep(t, z, y) == t.nodes[y].parent # NIL /\ t.nodes[y].parent # z

\* "y.right = z.right; right.parent = y" once y was transplanted out.
SpliceDeepLink(t, z, y) ==
    SetParentOpt(SetRight(t, y, t.nodes[z].right), t.nodes[z].right, y)

\* The "y is deeper in the tree" branch.
SpliceDeep(t, z, y) == SpliceDeepLink(Transplant(t, y, t.nodes[y].right), z, y)

\* The re-linking without "y.color = z.color".
SpliceLeftKeepsColor(t, z, y) ==
    SetParentOpt(SetLeft(t, y, t.nodes[z].left), t.nodes[z].left, y)

\* "y.left = z.left; left.parent = y; y.color = z.color" once y took z's place.
SpliceLeft(t, z, y) ==
    SetColor(SetParentOpt(SetLeft(t, y, t.nodes[z].left), t.nodes[z].left, y),
             y, t.nodes[z].color)

\* The two-children branch of delete_node: the successor y replaces z.
\* The result carries x, x_parent and y's original colour for the fixup.
SpliceSuccessor(t, z, y) ==
    [tree |-> SpliceLeft(Transplant(IF IsDeep(t, z, y) THEN SpliceDeep(t, z, y) ELSE t, z, y),
                         z, y),
     x |-> t.nodes[y].right,
     xp |-> IF IsDeep(t, z, y) THEN t.nodes[y].parent ELSE y,
     yOriginalColor |-> t.nodes[y].color]

\* The three branches of delete_node up to the fixup.
DeleteSplice(t, z) ==
    IF t.nodes[z].left = NIL
    THEN [tree |-> Transplant(t, z, t.nodes[z].right),
          x |-> t.nodes[z].right, xp |-> t.nodes[z].parent,
          yOriginalColor |-> t.nodes[z].color]
    ELSE IF t.nodes[z].right = NIL
    THEN [tree |-> Transplant(t, z, t.nodes[z].left),
          x |-> t.nodes[z].left, xp |-> t.nodes[z].parent,
          yOriginalColor |-> t.nodes[z].color]
    ELSE SpliceSuccessor(t, z, TreeMinimum(t.nodes, t.nodes[z].right))

\* delete_node that runs the fixup whatever colour was spliced out.
DeleteNodeFixupAlways(r) == DeleteFixup(r.tree, r.x, r.xp)

\* "if y_original_color == Color::Black { self.delete_fixup(x, x_parent) }"
DeleteNodeFixup(r) ==
    IF r.yOriginalColor = "Black" THEN DeleteFixup(r.tree, r.x, r.xp) ELSE r.tree

\* delete_node(z)
DeleteNode(t, z) == DeleteNodeFixup(DeleteSplice(t, z))

\* The node z handed to delete_node is dropped by its caller once it returns.
DropNode(t, z) == [t EXCEPT !.nodes[z] = NoNode]

\* delete that counts down even when the value was not found.
DeleteFoundCountsMiss(t, z) ==
    IF z = NIL THEN [tree |-> DecSize(t), ret |-> FALSE]
    ELSE [tree |-> DropNode(DecSize(DeleteNode(t, z)), z), ret |-> TRUE]

\* delete that returns true whether or not the value was found.
DeleteFoundReportsMiss(t, z) ==
    IF z = NIL THEN [tree |-> t, ret |-> TRUE]
    ELSE [tree |-> DropNode(DecSize(DeleteNode(t, z)), z), ret |-> TRUE]

\* delete that removes the node but never counts down.
DeleteFoundKeepsSize(t, z) ==
    IF z = NIL THEN [tree |-> t, ret |-> FALSE]
    ELSE [tree |-> DropNode(DeleteNode(t, z), z), ret |-> TRUE]

\* delete after find_node: z is NIL when the value was not found.
DeleteFound(t, z) ==
    IF z = NIL THEN [tree |-> t, ret |-> FALSE]
    ELSE [tree |-> DropNode(DecSize(DeleteNode(t, z)), z), ret |-> TRUE]

\* delete(value): the tree afterwards and the boolean returned.
DeletePlain(t, value) == DeleteFound(t, FindNode(t.nodes, t.root, value))

----------------------------------------------------------------------------
(* Steps *)

\* A Step of traits.rs.  `kind` identifies the description template (and the
\* "case" / marker key of the metadata), `vals` the numbers formatted into
\* the description and metadata, `color` the colour word they carry ("" when
\* there is none).
Step(kind, hl, act, vals, color) ==
    [kind |-> kind, highlight |-> hl, active |-> act, vals |-> vals, color |-> color]

ColorName(n, x) == IF n[x].color = "Red" THEN "red" ELSE "black"

\* find_node_index_helper: depth-first search for the handle; -1 is None.
RECURSIVE FindNodeIndexHelper(_, _, _, _)

\* "if let Some(idx) = left-search { return Some(idx) }", else the right search.
FindNodeIndexOr(l, n, node, target, idx) ==
    IF l # -1 THEN l
    ELSE FindNodeIndexHelper(n, n[node].right, target, idx * 2 + 2)

FindNodeIndexHelper(n, node, target, idx) ==
    IF node = NIL THEN -1
    ELSE IF node = target THEN idx
    ELSE FindNodeIndexOr(FindNodeIndexHelper(n, n[node].left, target, idx * 2 + 1),
                         n, node, target, idx)

\* unwrap_or(0)
UnwrapOr0(i) == IF i = -1 THEN 0 ELSE i

\* find_node_index
FindNodeIndex(t, target) == UnwrapOr0(FindNodeIndexHelper(t.nodes, t.root, target, 0))

\* The iteration bound of insert_fixup_with_steps.
MaxIterations == 100

\* A result of a stepped procedure: the tree, the Steps so far, the error.
Stepped(t, steps, err) == [tree |-> t, steps |-> steps, err |-> err]

----------------------------------------------------------------------------
(* Stepped insertion *)

\* A line case that does not leave the loop: one more iteration follows it.
InsertLineStepsAtGoesOn(t, p, g, steps, left) ==
    Stepped(InsertLineAt(t, p, g, left),
            Append(Append(steps, Step(IF left THEN "ins_line" ELSE "ins_line_mirror",
                                      <<FindNodeIndex(t, p), FindNodeIndex(t, g)>>, <<>>,
                                      <<t.nodes[g].value>>, "")),
                   Step("ins_fixup_end", <<>>, <<>>, <<>>, "")),
            "")

\* Case 3 (line) of insert_fixup_with_steps for parent p and grandparent g.
InsertLineStepsAt(t, p, g, steps, left) ==
    Stepped(InsertLineAt(t, p, g, left),
            Append(steps, Step(IF left THEN "ins_line" ELSE "ins_line_mirror",
                               <<FindNodeIndex(t, p), FindNodeIndex(t, g)>>, <<>>,
                               <<t.nodes[g].value>>, "")),
            "")

\* Case 3 starts from current_z: its parent and grandparent are re-read.
InsertLineSteps(t, z, steps, left) ==
    InsertLineStepsAt(t, t.nodes[z].parent, t.nodes[t.nodes[z].parent].parent, steps, left)

\* The "Fixup: current=..., parent=..., grandparent=..., uncle=..." Step.
InsertStateStep(t, z, p, g, u, zIdx, pIdx, gIdx, uIdx) ==
    Step("ins_state", <<zIdx, pIdx, gIdx>> \o uIdx, <<>>,
         <<t.nodes[z].value, t.nodes[p].value, t.nodes[g].value,
           IF u # NIL THEN t.nodes[u].value ELSE 0,
           IF IsRed(t.nodes, u) THEN 1 ELSE 0>>,
         ColorName(t.nodes, g))

\* The loop of insert_fixup_with_steps.  `iteration` is the counter before
\* the iteration starts.
RECURSIVE InsertFixupStepsLoop(_, _, _, _)

\* An iteration bound that the first recolouring already exceeds.
InsertUncleRedStepsNoSlack(t, g, steps, it) ==
    IF it > 0 THEN Stepped(t, steps, "InvalidState")
    ELSE InsertFixupStepsLoop(t, g, steps, it)

\* Case 1 (uncle red) and the iteration bound checked after it.
InsertUncleRedSteps(t, g, steps, it) ==
    IF it > MaxIterations THEN Stepped(t, steps, "InvalidState")
    ELSE InsertFixupStepsLoop(t, g, steps, it)

\* The three cases; `steps` already ends with the state Step.
InsertFixupStepsCase(t, z, p, g, left, u, steps, it, zIdx, pIdx, gIdx, uIdx) ==
    IF IsRed(t.nodes, u)
    THEN InsertUncleRedSteps(InsertRecolor(t, p, u, g), g,
                             Append(steps, Step(IF left THEN "ins_uncle_red"
                                                ELSE "ins_uncle_red_mirror",
                                                <<pIdx, gIdx>> \o uIdx, <<>>, <<>>, "")),
                             it)
    ELSE IF IsInner(t, z, p, left)
    THEN InsertLineSteps(InsertTriangle(t, p, left), p,
                         Append(steps, Step(IF left THEN "ins_triangle"
                                            ELSE "ins_triangle_mirror",
                                            <<zIdx, pIdx>>, <<>>, <<t.nodes[p].value>>, "")),
                         left)
    ELSE InsertLineSteps(t, z, steps, left)

\* The state Step, pushed once the indices are known.
InsertFixupStepsState(t, z, p, g, left, u, steps, it, zIdx, pIdx, gIdx, uIdx) ==
    InsertFixupStepsCase(t, z, p, g, left, u,
                         Append(steps, InsertStateStep(t, z, p, g, u, zIdx, pIdx, gIdx, uIdx)),
                         it, zIdx, pIdx, gIdx, uIdx)

\* The indices of current, parent, grandparent and uncle.
InsertFixupStepsIndices(t, z, p, g, left, u, steps, it) ==
    InsertFixupStepsState(t, z, p, g, left, u, steps, it,
                          FindNodeIndex(t, z), FindNodeIndex(t, p), FindNodeIndex(t, g),
                          IF u # NIL THEN <<FindNodeIndex(t, u)>> ELSE <<>>)

\* parent_is_left and the uncle.
InsertFixupStepsSide(t, z, p, g, left, steps, it) ==
    InsertFixupStepsIndices(t, z, p, g, left, Uncle(t, g, left), steps, it)

\* The grandparent lookup: without a grandparent the loop ends silently.
InsertFixupStepsGrandparent(t, z, p, steps, it) ==
    IF t.nodes[p].parent = NIL THEN Stepped(t, steps, "")
    ELSE InsertFixupStepsSide(t, z, p, t.nodes[p].parent,
                              t.nodes[t.nodes[p].parent].left = p, steps, it)

InsertFixupStepsLoop(t, z, steps, iteration) ==
    IF ~IsRed(t.nodes, t.nodes[z].parent)
    THEN Stepped(t, Append(steps, Step("ins_fixup_end", <<>>, <<>>, <<>>, "")), "")
    ELSE InsertFixupStepsGrandparent(t, z, t.nodes[z].parent, steps, iteration + 1)

\* The forced root recolour made without a Step.
InsertFixupStepsRootSilent(r) ==
    IF r.err # "" THEN r
    ELSE Stepped(SetColorOpt(r.tree, r.tree.root, "Black"), r.steps, "")

\* The forced root recolour after the loop, with its Step.
InsertFixupStepsRoot(r) ==
    IF r.err # "" THEN r
    ELSE IF IsRed(r.tree.nodes, r.tree.root)
    THEN Stepped(SetColor(r.tree, r.tree.root, "Black"),
                 Append(r.steps, Step("ins_root_recolor", <<0>>, <<>>, <<>>, "")),
                 "")
    ELSE r

\* insert_fixup_with_steps
InsertFixupSteps(t, z, steps) == InsertFixupStepsRoot(InsertFixupStepsLoop(t, z, steps, 0))

\* The descent of insert_with_steps: one comparing Step per node visited.
\* Returns the parent found, the index of the vacant slot and the Steps;
\* dup is TRUE when the value was met.
RECURSIVE InsertDescendSteps(_, _, _, _, _, _, _)

\* The comparison at `current`; path and steps already include it.
InsertCompareSteps(n, current, idx, path, steps, value) ==
    IF value < n[current].value
    THEN InsertDescendSteps(n, n[current].left, current, idx * 2 + 1, path, steps, value)
    ELSE IF value > n[current].value
    THEN InsertDescendSteps(n, n[current].right, current, idx * 2 + 2, path, steps, value)
    ELSE [parent |-> current, idx |-> idx,
          steps |-> Append(steps, Step("ins_duplicate", path, <<>>, <<value>>, "")),
          dup |-> TRUE]

\* "path.push(current_idx)" and the comparing Step.
InsertVisitSteps(n, current, idx, path, steps, value) ==
    InsertCompareSteps(n, current, idx, path,
                       Append(steps, Step("ins_comparing", path, <<>>,
                                          <<value, n[current].value>>, ColorName(n, current))),
                       value)

InsertDescendSteps(n, current, parent, idx, path, steps, value) ==
    IF current = NIL
    THEN [parent |-> parent, idx |-> idx, steps |-> steps, dup |-> FALSE]
    ELSE InsertVisitSteps(n, current, idx, Append(path, idx), steps, value)

\* The end of insert_with_steps: `?` on the fixup, then the closing Step.
InsertStepsFinish(f) ==
    IF f.err # "" THEN Stepped(f.tree, <<>>, f.err)
    ELSE Stepped(f.tree, Append(f.steps, Step("ins_restored", <<>>, <<>>, <<>>, "")), "")

\* insert_with_steps that hangs the node in without counting it.
InsertStepsAtKeepsSize(t, value, d) ==
    IF d.dup THEN Stepped(t, d.steps, "")
    ELSE InsertStepsFinish(
             InsertFixupSteps(Attach(t, d.parent, value), value,
                              Append(d.steps, Step("ins_inserted", <<>>, <<d.idx>>,
                                                   <<value, d.idx>>, "red"))))

\* insert_with_steps after the descent d.
InsertStepsAt(t, value, d) ==
    IF d.dup THEN Stepped(t, d.steps, "")
    ELSE InsertStepsFinish(
             InsertFixupSteps(IncSize(Attach(t, d.parent, value)), value,
                              Append(d.steps, Step("ins_inserted", <<>>, <<d.idx>>,
                                                   <<value, d.idx>>, "red"))))

\* insert_with_steps(value): tree afterwards, Steps returned, error ("" is Ok).
InsertWithSteps(t, value) ==
    IF t.root = NIL
    THEN Stepped(NewRoot(t, value),
                 <<Step("ins_start", <<>>, <<>>, <<value>>, ""),
                   Step("ins_new_root", <<>>, <<0>>, <<value>>, "black")>>,
                 "")
    ELSE InsertStepsAt(t, value,
                       InsertDescendSteps(t.nodes, t.root, NIL, 0, <<>>,
                                          <<Step("ins_start", <<>>, <<>>, <<value>>, "")>>,
                                          value))

----------------------------------------------------------------------------
(* Stepped deletion *)

\* The loop condition of delete_fixup_with_steps (a missing root counts as
\* "x is not the root").
DeleteFixupStepsGoesOn(t, x) ==
    /\ (x = NIL \/ t.root = NIL \/ x # t.root)
    /\ (x = NIL \/ t.nodes[x].color = "Black")

\* What the loop of delete_fixup_with_steps ends with.
FixupEnd(t, x, steps) == [tree |-> t, x |-> x, steps |-> steps]

\* The loop of delete_fixup_with_steps.  `iteration` is the counter before
\* the iteration starts.
RECURSIVE DeleteFixupStepsLoop(_, _, _, _, _)

\* The end of the line case: "x = self.root; break".
DeleteFixupStepsDone(t, steps) == FixupEnd(t, t.root, steps)

\* Case 4: its Step is pushed before the sibling is looked at.
DeleteFixupStepsCase4(t, xp, left, w0, c3, steps, it) ==
    DeleteFixupStepsDone(
        DeleteLine(t, xp, IF c3 THEN Sibling(t, xp, left) ELSE w0, left),
        Append(steps, Step(IF left THEN "del_line" ELSE "del_line_mirror",
                           <<>>, <<>>, <<it>>, "")))

\* Cases 2 to 4 for the sibling w.
DeleteFixupStepsCase2(t, x, xp, left, w, steps, it) ==
    IF w = NIL THEN FixupEnd(t, x, steps)
    ELSE IF BothNephewsBlack(t, w)
    THEN DeleteFixupStepsLoop(SetColor(t, w, "Red"), xp, t.nodes[xp].parent,
                              Append(steps, Step(IF left THEN "del_both_children_black"
                                                 ELSE "del_both_children_black_mirror",
                                                 <<FindNodeIndex(t, w)>>, <<>>, <<it>>, "")),
                              it)
    ELSE DeleteFixupStepsCase4(
             IF IsBlack(t.nodes, FarChild(t, w, left)) THEN DeleteTriangle(t, w, left) ELSE t,
             xp, left, w, IsBlack(t.nodes, FarChild(t, w, left)),
             IF IsBlack(t.nodes, FarChild(t, w, left))
             THEN Append(steps, Step(IF left THEN "del_triangle" ELSE "del_triangle_mirror",
                                     <<FindNodeIndex(t, w)>>, <<>>, <<it>>, ""))
             ELSE steps,
             it)

\* After Case 1 (c1 says it ran) the sibling is re-fetched.
DeleteFixupStepsRefetch(t, x, xp, left, w0, c1, steps, it) ==
    DeleteFixupStepsCase2(t, x, xp, left, IF c1 THEN Sibling(t, xp, left) ELSE w0, steps, it)

\* Case 1 that rotates without a Step of its own.
DeleteFixupStepsCase1Silent(t, x, xp, left, w, steps, it) ==
    DeleteFixupStepsRefetch(
        IF IsRed(t.nodes, w) THEN DeleteSiblingRed(t, xp, w, left) ELSE t,
        x, xp, left, w, IsRed(t.nodes, w), steps, it)

\* Case 1 for the sibling w.
DeleteFixupStepsCase1(t, x, xp, left, w, steps, it) ==
    DeleteFixupStepsRefetch(
        IF IsRed(t.nodes, w) THEN DeleteSiblingRed(t, xp, w, left) ELSE t,
        x, xp, left, w, IsRed(t.nodes, w),
        IF IsRed(t.nodes, w)
        THEN Append(steps, Step(IF left THEN "del_sibling_red" ELSE "del_sibling_red_mirror",
                                <<FindNodeIndex(t, w)>>, <<>>, <<t.nodes[w].value, it>>, ""))
        ELSE steps,
        it)

\* One iteration once the side of x is known.
DeleteFixupStepsSide(t, x, xp, left, steps, it) ==
    DeleteFixupStepsCase1(t, x, xp, left, Sibling(t, xp, left), steps, it)

DeleteFixupStepsLoop(t, x, xp, steps, iteration) ==
    IF ~DeleteFixupStepsGoesOn(t, x) THEN FixupEnd(t, x, steps)
    ELSE IF xp = NIL THEN FixupEnd(t, x, steps)
    ELSE DeleteFixupStepsSide(t, x, xp, XIsLeft(t.nodes, x, xp), steps, iteration + 1)

\* A fixup that ends without making x Black.
DeleteFixupStepsBlackenSkipped(r) ==
    [tree |-> r.tree,
     steps |-> Append(r.steps, Step("del_fixup_complete", <<>>, <<>>, <<>>, ""))]

\* "Ensure x is black" and the closing Step of the fixup.
DeleteFixupStepsBlacken(r) ==
    [tree |-> SetColorOpt(r.tree, r.x, "Black"),
     steps |-> Append(r.steps, Step("del_fixup_complete", <<>>, <<>>, <<>>, ""))]

\* delete_fixup_with_steps
DeleteFixupSteps(t, x, xp, steps) ==
    DeleteFixupStepsBlacken(DeleteFixupStepsLoop(t, x, xp, steps, 0))

\* A branch result of delete_node_with_steps: the splice and the Steps so far.
Spliced(s, steps) ==
    [tree |-> s.tree, x |-> s.x, xp |-> s.xp, yOriginalColor |-> s.yOriginalColor,
     steps |-> steps]

\* The "Replaced ... with successor ..." Step, pushed after the splice s.
SpliceReplacedSteps(s, zVal, y, yVal, steps) ==
    Spliced(s, Append(steps, Step("del_replaced", <<>>, <<FindNodeIndex(s.tree, y)>>,
                                  <<zVal, yVal>>, "")))

\* The two-children branch of delete_node_with_steps for the successor y.
SpliceSuccessorStepsAt(t, z, y, zIdx, steps) ==
    SpliceReplacedSteps(SpliceSuccessor(t, z, y), t.nodes[z].value, y, t.nodes[y].value,
                        Append(steps, Step("del_two_children", <<FindNodeIndex(t, y)>>,
                                           <<zIdx>>, <<t.nodes[z].value, t.nodes[y].value>>,
                                           "")))

SpliceSuccessorSteps(t, z, zIdx, steps) ==
    SpliceSuccessorStepsAt(t, z, TreeMinimum(t.nodes, t.nodes[z].right), zIdx, steps)

\* The four branches of delete_node_with_steps up to the fixup.
DeleteSpliceSteps(t, z, zIdx, steps) ==
    IF t.nodes[z].left = NIL /\ t.nodes[z].right = NIL
    THEN [tree |-> Transplant(t, z, NIL), x |-> NIL, xp |-> t.nodes[z].parent,
          yOriginalColor |-> t.nodes[z].color,
          steps |-> Append(steps, Step("del_no_children", <<>>, <<zIdx>>,
                                       <<t.nodes[z].value>>, ""))]
    ELSE IF t.nodes[z].left = NIL
    THEN [tree |-> Transplant(t, z, t.nodes[z].right),
          x |-> t.nodes[z].right, xp |-> t.nodes[z].parent,
          yOriginalColor |-> t.nodes[z].color,
          steps |-> Append(steps, Step("del_only_right_child", <<>>, <<zIdx>>,
                                       <<t.nodes[z].value, t.nodes[t.nodes[z].right].value>>,
                                       ""))]
    ELSE IF t.nodes[z].right = NIL
    THEN [tree |-> Transplant(t, z, t.nodes[z].left),
          x |-> t.nodes[z].left, xp |-> t.nodes[z].parent,
          yOriginalColor |-> t.nodes[z].color,
          steps |-> Append(steps, Step("del_only_left_child", <<>>, <<zIdx>>,
                                       <<t.nodes[z].value, t.nodes[t.nodes[z].left].value>>,
                                       ""))]
    ELSE SpliceSuccessorSteps(t, z, zIdx, steps)

\* The fixup decision of delete_node_with_steps, with its Step.
DeleteNodeFixupSteps(r) ==
    IF r.yOriginalColor = "Black"
    THEN DeleteFixupSteps(r.tree, r.x, r.xp,
                          Append(r.steps, Step("del_fixup_needed", <<>>, <<>>, <<>>, "black")))
    ELSE [tree |-> r.tree,
          steps |-> Append(r.steps, Step("del_no_fixup", <<>>, <<>>, <<>>, "red"))]

\* delete_node_with_steps(z, steps)
DeleteNodeSteps(t, z, steps) ==
    DeleteNodeFixupSteps(DeleteSpliceSteps(t, z, FindNodeIndex(t, z), steps))

\* delete_with_steps that forgets to count the node down.
DeleteStepsFinishKeepsSize(r, z, value) ==
    Stepped(DropNode(r.tree, z),
            Append(r.steps, Step("del_complete", <<>>, <<>>, <<value>>, "")),
            "")

\* The end of delete_with_steps: size -= 1 and the closing Step.
DeleteStepsFinish(r, z, value) ==
    Stepped(DropNode(DecSize(r.tree), z),
            Append(r.steps, Step("del_complete", <<>>, <<>>, <<value>>, "")),
            "")

\* The "Found ... at index ..." Step for the index idx, then the removal.
DeleteStepsFoundAt(t, z, value, idx) ==
    DeleteStepsFinish(
        DeleteNodeSteps(t, z, <<Step("del_start", <<>>, <<>>, <<value>>, ""),
                                Step("del_found", <<idx>>, <<>>, <<value, idx>>, "")>>),
        z, value)

\* delete_with_steps after find_node: z is NIL when the value was not found.
DeleteStepsFound(t, z, value) ==
    IF z = NIL
    THEN Stepped(t, <<Step("del_start", <<>>, <<>>, <<value>>, ""),
                      Step("del_not_found", <<>>, <<>>, <<value>>, "")>>, "")
    ELSE DeleteStepsFoundAt(t, z, value, FindNodeIndex(t, z))

\* delete_with_steps(value): tree afterwards, Steps returned, error ("" is Ok).
DeleteWithSteps(t, value) == DeleteStepsFound(t, FindNode(t.nodes, t.root, value), value)

----------------------------------------------------------------------------
(* Observers *)

RECURSIVE InorderCollect(_, _)
InorderCollect(n, node) ==
    IF node = NIL THEN <<>>
    ELSE InorderCollect(n, n[node].left) \o <<n[node].value>> \o InorderCollect(n, n[node].right)

CollectNodes(t) == InorderCollect(t.nodes, t.root)

RECURSIVE SearchRecursive(_, _, _)
SearchRecursive(n, node, value) ==
    IF node = NIL THEN FALSE
    ELSE IF value = n[node].value THEN TRUE
    ELSE IF value < n[node].value THEN SearchRecursive(n, n[node].left, value)
    ELSE SearchRecursive(n, n[node].right, value)

Search(t, value) == SearchRecursive(t.nodes, t.root, value)

\* is_empty()
IsEmpty(t) == t.size = 0

----------------------------------------------------------------------------
(* Stepped search *)

\* The descent of Operation::Search: one checking Step per node visited,
\* then the found Step, or the not-found Step once the descent runs out.
RECURSIVE SearchSteps(_, _, _, _, _)

\* The comparison at `current` that goes right where it should go left.
SearchCompareWrongWay(n, current, idx, steps, target) ==
    IF target = n[current].value
    THEN Append(steps, Step("search_found", <<>>, <<idx>>, <<target, idx>>, ""))
    ELSE IF target < n[current].value
    THEN SearchSteps(n, n[current].right, idx * 2 + 2, steps, target)
    ELSE SearchSteps(n, n[current].left, idx * 2 + 1, steps, target)

\* The comparison at `current`; steps already ends with its checking Step.
SearchCompare(n, current, idx, steps, target) ==
    IF target = n[current].value
    THEN Append(steps, Step("search_found", <<>>, <<idx>>, <<target, idx>>, ""))
    ELSE IF target < n[current].value
    THEN SearchSteps(n, n[current].left, idx * 2 + 1, steps, target)
    ELSE SearchSteps(n, n[current].right, idx * 2 + 2, steps, target)

SearchSteps(n, current, idx, steps, target) ==
    IF current = NIL
    THEN Append(steps, Step("search_not_found", <<>>, <<>>, <<target>>, ""))
    ELSE SearchCompare(n, current, idx,
                       Append(steps, Step("search_checking", <<idx>>, <<>>,
                                          <<n[current].value>>, ColorName(n, current))),
                       target)

\* execute_with_steps(Operation::Search(target)): the tree is only read.
SearchWithSteps(t, target) ==
    Stepped(t, SearchSteps(t.nodes, t.root, 0,
                           <<Step("search_start", <<>>, <<>>, <<target>>, "")>>, target),
            "")

----------------------------------------------------------------------------
(* Stepped traversal and the unsupported operations *)

\* inorder_traverse_steps: left subtree, the node's visit Step, right subtree.
RECURSIVE InorderTraverseSteps(_, _, _, _)

\* The visit that hands the node's own index down to the right subtree.
InorderVisitKeepsIndex(n, node, idx, steps) ==
    InorderTraverseSteps(n, n[node].right, idx,
                         Append(steps, Step("traverse_visit", <<idx>>, <<>>,
                                            <<n[node].value, idx>>, ColorName(n, node))))

\* The visit Step of `node`, pushed once its left subtree is done, then the
\* right subtree.
InorderVisit(n, node, idx, steps) ==
    InorderTraverseSteps(n, n[node].right, idx * 2 + 2,
                         Append(steps, Step("traverse_visit", <<idx>>, <<>>,
                                            <<n[node].value, idx>>, ColorName(n, node))))

InorderTraverseSteps(n, node, idx, steps) ==
    IF node = NIL THEN steps
    ELSE InorderVisit(n, node, idx,
                      InorderTraverseSteps(n, n[node].left, idx * 2 + 1, steps))

\* execute_with_steps(Operation::Traverse): the tree is only read.
TraverseWithSteps(t) ==
    Stepped(t,
            Append(InorderTraverseSteps(t.nodes, t.root, 0,
                                        <<Step("traverse_start", <<>>, <<>>, <<>>, "")>>),
                   Step("traverse_complete", <<>>, <<>>, <<>>, "")),
            "")

\* The Operation variants that reach the `_` arm of execute_with_steps.
OtherOperations ==
    {"BinarySearch", "PreOrderTraverse", "PostOrderTraverse", "LevelOrderTraverse",
     "Push", "Pop", "Enqueue", "Dequeue", "BubbleSort", "InsertionSort", "QuickSort"}

\* The `_` arm answering Ok with no Steps.
UnsupportedAccepted(t) == Stepped(t, <<>>, "")

\* The `_` arm: Err(DsavError::Visualization(..)), nothing done.
Unsupported(t) == Stepped(t, <<>>, "Visualization")

----------------------------------------------------------------------------
(* Render projection *)

\* The length of the array tree_to_array fills.
ArrayLen == 128

\* Option<(i32, Color)>: None, and Some((value, color)).
NoEntry == [some |-> FALSE, value |-> 0, color |-> "Black"]

SomeEntry(value, color) == [some |-> TRUE, value |-> value, color |-> color]

\* tree_to_array_helper: slot idx of `result` is element idx + 1 of the
\* sequence; a node whose index is not below result.len() is skipped with
\* everything under it.
RECURSIVE TreeToArrayHelper(_, _, _, _)
TreeToArrayHelper(n, node, idx, result) ==
    IF node = NIL THEN result
    ELSE IF idx < Len(result)
    THEN TreeToArrayHelper(n, n[node].right, idx * 2 + 2,
             TreeToArrayHelper(n, n[node].left, idx * 2 + 1,
                 [result EXCEPT ![idx + 1] = SomeEntry(n[node].value, n[node].color)]))
    ELSE result

\* tree_to_array
TreeToArray(t) == TreeToArrayHelper(t.nodes, t.root, 0, [i \in 1..ArrayLen |-> NoEntry])

\* RenderElement::new(0).with_label(""): the filler of an unused slot.  A
\* label is the sequence of numbers printed into it.
FillerElement == [value |-> 0, state |-> "Normal", label |-> <<>>, sublabel |-> ""]

\* The element of a node: label value.to_string(), sublabel "R" or "B",
\* state Comparing for Red and Normal for Black.
NodeElement(e) ==
    [value |-> e.value,
     state |-> IF e.color = "Red" THEN "Comparing" ELSE "Normal",
     label |-> <<e.value>>,
     sublabel |-> IF e.color = "Red" THEN "R" ELSE "B"]

\* The connections of slot idx: to each child slot inside the array that is Some.
ChildConnections(array, idx) ==
    (IF idx * 2 + 1 < Len(array) /\ array[idx * 2 + 2].some
     THEN <<<<idx, idx * 2 + 1>>>> ELSE <<>>)
    \o
    (IF idx * 2 + 2 < Len(array) /\ array[idx * 2 + 3].some
     THEN <<<<idx, idx * 2 + 2>>>> ELSE <<>>)

\* The connections the loop of render_state pushes while idx runs over
\* lo .. hi - 1, in that order (the range is halved to keep the evaluation
\* shallow).
RECURSIVE RenderConnections(_, _, _)
RenderConnections(array, lo, hi) ==
    IF hi <= lo THEN <<>>
    ELSE IF hi = lo + 1
    THEN (IF array[lo + 1].some THEN ChildConnections(array, lo) ELSE <<>>)
    ELSE RenderConnections(array, lo, (lo + hi) \div 2)
         \o RenderConnections(array, (lo + hi) \div 2, hi)

\* The number of elements when the loop ends: "while elements.len() <= idx
\* { push filler }" runs for every Some slot, so the list reaches one past
\* the last of them.
ElementCount(array) ==
    IF \E i \in 1..Len(array) : array[i].some
    THEN CHOOSE i \in 1..Len(array) :
             array[i].some /\ \A j \in (i + 1)..Len(array) : ~array[j].some
    ELSE 0

\* The elements when the loop ends: a Some slot holds its node's element,
\* a slot passed over holds the filler.
RenderElements(array) ==
    [i \in 1..ElementCount(array) |->
        IF array[i].some THEN NodeElement(array[i]) ELSE FillerElement]

\* render_state(): the tree is only read.
RenderArray(array) ==
    [elements |-> RenderElements(array),
     connections |-> RenderConnections(array, 0, Len(array))]

RenderState(t) == RenderArray(TreeToArray(t))

----------------------------------------------------------------------------
(* The binary search tree (bst.rs) *)

\* Number of distinct values the callers of the binary search tree draw from.
MaxBstVal == 4

BstValues == {ValueList[i] : i \in 1..MaxBstVal}

\* The calls stop once size() has reached this count.
MaxBstSize == 6

\* A heap slot of the binary search tree that holds no node.
NoBstNode == [value |-> 0, left |-> NIL, right |-> NIL]

\* Node::new of bst.rs
NewBstNode(value) == [value |-> value, left |-> NIL, right |-> NIL]

\* VisualizableBST::new
EmptyBst == [root |-> NIL, size |-> 0, nodes |-> [h \in Handles |-> NoBstNode]]

\* insert_recursive: hangs a new node where the descent ends and leaves the
\* tree alone when the value is met.
RECURSIVE BstInsertRecursive(_, _, _)
BstInsertRecursive(n, k, value) ==
    IF k = NIL THEN n
    ELSE IF value < n[k].value
    THEN IF n[k].left = NIL
         THEN [n EXCEPT ![k].left = value, ![value] = NewBstNode(value)]
         ELSE BstInsertRecursive(n, n[k].left, value)
    ELSE IF value > n[k].value
    THEN IF n[k].right = NIL
         THEN [n EXCEPT ![k].right = value, ![value] = NewBstNode(value)]
         ELSE BstInsertRecursive(n, n[k].right, value)
    ELSE n

\* VisualizableBST::insert: both branches count the call.
BstInsertPlain(b, value) ==
    IF b.root = NIL
    THEN [root |-> value, size |-> b.size + 1,
          nodes |-> [b.nodes EXCEPT ![value] = NewBstNode(value)]]
    ELSE [root |-> b.root, size |-> b.size + 1,
          nodes |-> BstInsertRecursive(b.nodes, b.root, value)]

\* The descent of Operation::Insert: one comparing Step per node visited;
\* dup is TRUE when the value was met, idx is the index of the vacant slot.
RECURSIVE BstDescendSteps(_, _, _, _, _, _)

\* The comparison at `current`; path and steps already include it.
BstCompareSteps(n, current, idx, path, steps, value) ==
    IF value < n[current].value
    THEN BstDescendSteps(n, n[current].left, idx * 2 + 1, path, steps, value)
    ELSE IF value > n[current].value
    THEN BstDescendSteps(n, n[current].right, idx * 2 + 2, path, steps, value)
    ELSE [idx |-> idx, dup |-> TRUE,
          steps |-> Append(steps, Step("bst_duplicate", path, <<>>, <<value>>, ""))]

\* "path.push(idx)" and the comparing Step.
BstVisitSteps(n, current, idx, path, steps, value) ==
    BstCompareSteps(n, current, idx, path,
                    Append(steps, Step("bst_comparing", path, <<>>,
                                       <<value, n[current].value>>, "")),
                    value)

BstDescendSteps(n, current, idx, path, steps, value) ==
    IF current = NIL THEN [idx |-> idx, dup |-> FALSE, steps |-> steps]
    ELSE BstVisitSteps(n, current, idx, Append(path, idx), steps, value)

\* Operation::Insert after the descent d: a duplicate returns early, before
\* self.insert is called.
BstInsertStepsAt(b, value, d) ==
    IF d.dup THEN Stepped(b, d.steps, "")
    ELSE Stepped(BstInsertPlain(b, value),
                 Append(d.steps, Step("bst_inserted", <<>>, <<d.idx>>, <<value>>, "")),
                 "")

\* execute_with_steps(Operation::Insert(_, value)) of the binary search tree.
BstInsertWithSteps(b, value) ==
    IF b.root = NIL
    THEN Stepped(BstInsertPlain(b, value),
                 <<Step("bst_start", <<>>, <<>>, <<value>>, ""),
                   Step("bst_new_root", <<>>, <<0>>, <<value>>, "")>>,
                 "")
    ELSE BstInsertStepsAt(b, value,
                          BstDescendSteps(b.nodes, b.root, 0, <<>>,
                                          <<Step("bst_start", <<>>, <<>>, <<value>>, "")>>,
                                          value))

\* VisualizableBST::size
BstSize(b) == b.size

\* collect_nodes / inorder_collect of bst.rs
RECURSIVE BstInorderCollect(_, _)
BstInorderCollect(n, node) ==
    IF node = NIL THEN <<>>
    ELSE BstInorderCollect(n, n[node].left) \o <<n[node].value>>
             \o BstInorderCollect(n, n[node].right)

BstCollectNodes(b) == BstInorderCollect(b.nodes, b.root)

----------------------------------------------------------------------------
(* The stack (stack.rs) and the queue (queue.rs) *)

\* The capacity the stack and the queue are built with.
StackCapacity == 3

QueueCapacity == 3

\* VisualizableStack::with_capacity
NewStack(capacity) == [data |-> <<>>, capacity |-> capacity]

\* VisualizableQueue::with_capacity
NewQueue(capacity) == [data |-> <<>>, capacity |-> capacity]

\* Number of distinct values pushed and enqueued.
MaxItem == 3

Items == {10 * i : i \in 1..MaxItem}

\* The calls stop once this many values went in or out.
MaxOps == 6

\* What a call on a stack or queue yields: the object afterwards, the value
\* handed back (0 when there is none), the error ("" is Ok) and the Steps.
Outcome(obj, val, err, steps) == [obj |-> obj, val |-> val, err |-> err, steps |-> steps]

\* `?` on a failed call: the error is returned and the Steps are dropped.
Failed(r) == Outcome(r.obj, 0, r.err, <<>>)

\* VisualizableStack::is_full
StackIsFull(s) == Len(s.data) >= s.capacity

\* VisualizableStack::is_empty
StackIsEmpty(s) == s.data = <<>>

\* VisualizableStack::size
StackSize(s) == Len(s.data)

\* VisualizableStack::push
StackPush(s, value) ==
    IF StackIsFull(s) THEN Outcome(s, 0, "Full", <<>>)
    ELSE Outcome([s EXCEPT !.data = Append(@, value)], 0, "", <<>>)

\* A pop that takes the oldest element.
StackPopBottom(s) ==
    IF s.data = <<>> THEN Outcome(s, 0, "EmptyStructure", <<>>)
    ELSE Outcome([s EXCEPT !.data = Tail(@)], Head(s.data), "", <<>>)

\* VisualizableStack::pop
StackPop(s) ==
    IF s.data = <<>> THEN Outcome(s, 0, "EmptyStructure", <<>>)
    ELSE Outcome([s EXCEPT !.data = SubSeq(@, 1, Len(@) - 1)], s.data[Len(s.data)], "", <<>>)

\* VisualizableStack::peek
StackPeek(s) ==
    IF s.data = <<>> THEN Outcome(s, 0, "EmptyStructure", <<>>)
    ELSE Outcome(s, s.data[Len(s.data)], "", <<>>)

\* execute_with_steps(Operation::Push(value)) of the stack.
StackPushWithSteps(s, value) ==
    LET r == StackPush(s, value) IN
    IF r.err # "" THEN Failed(r)
    ELSE Outcome(r.obj, 0, "",
                 <<Step("push_start", <<>>, <<>>, <<value>>, ""),
                   Step("push_done", <<>>, <<StackSize(r.obj) - 1>>,
                        <<value, StackSize(r.obj) - 1>>, "")>>)

\* execute_with_steps(Operation::Pop) of the stack: peek, then pop.
StackPopWithSteps(s) ==
    LET k == StackPeek(s)
        r == StackPop(s)
    IN  IF k.err # "" THEN Failed(k)
        ELSE IF r.err # "" THEN Failed(r)
        ELSE Outcome(r.obj, k.val, "",
                     <<Step("pop_start", <<StackSize(s) - 1>>, <<>>, <<k.val>>, ""),
                       Step("pop_done", <<>>, <<>>, <<k.val, StackSize(r.obj)>>, "")>>)

\* VisualizableQueue::is_full
QueueIsFull(q) == Len(q.data) >= q.capacity

\* VisualizableQueue::is_empty
QueueIsEmpty(q) == q.data = <<>>

\* VisualizableQueue::size
QueueSize(q) == Len(q.data)

\* VisualizableQueue::enqueue
QueueEnqueue(q, value) ==
    IF QueueIsFull(q) THEN Outcome(q, 0, "Full", <<>>)
    ELSE Outcome([q EXCEPT !.data = Append(@, value)], 0, "", <<>>)

\* A dequeue that takes the newest element.
QueueDequeueBack(q) ==
    IF QueueIsEmpty(q) THEN Outcome(q, 0, "EmptyStructure", <<>>)
    ELSE Outcome([q EXCEPT !.data = SubSeq(@, 1, Len(@) - 1)], q.data[Len(q.data)], "", <<>>)

\* VisualizableQueue::dequeue: data.remove(0)
QueueDequeue(q) ==
    IF QueueIsEmpty(q) THEN Outcome(q, 0, "EmptyStructure", <<>>)
    ELSE Outcome([q EXCEPT !.data = Tail(@)], Head(q.data), "", <<>>)

\* VisualizableQueue::peek
QueuePeek(q) ==
    IF q.data = <<>> THEN Outcome(q, 0, "EmptyStructure", <<>>)
    ELSE Outcome(q, Head(q.data), "", <<>>)

\* execute_with_steps(Operation::Enqueue(value)) of the queue.
QueueEnqueueWithSteps(q, value) ==
    LET r == QueueEnqueue(q, value) IN
    IF r.err # "" THEN Failed(r)
    ELSE Outcome(r.obj, 0, "",
                 <<Step("enqueue_start", <<>>, <<>>, <<value>>, ""),
                   Step("enqueue_done", <<>>, <<QueueSize(r.obj) - 1>>,
                        <<value, QueueSize(r.obj)>>, "")>>)

\* The "Shifting remaining elements forward" Step, when elements remain.
QueueShiftSteps(q) ==
    IF QueueIsEmpty(q) THEN <<>>
    ELSE <<Step("dequeue_shift", [i \in 1..QueueSize(q) |-> i - 1], <<>>, <<>>, "")>>

\* execute_with_steps(Operation::Dequeue) of the queue: peek, then dequeue.
QueueDequeueWithSteps(q) ==
    LET k == QueuePeek(q)
        r == QueueDequeue(q)
    IN  IF k.err # "" THEN Failed(k)
        ELSE IF r.err # "" THEN Failed(r)
        ELSE Outcome(r.obj, k.val, "",
                     <<Step("dequeue_start", <<0>>, <<>>, <<k.val>>, "")>>
                         \o QueueShiftSteps(r.obj)
                         \o <<Step("dequeue_done", <<>>, <<>>, <<k.val, QueueSize(r.obj)>>, "")>>)

----------------------------------------------------------------------------
(* Quick sort (algorithms/sorting.rs) *)

\* Longest array sorted and number of distinct values in it.
MaxLen == 5

MaxElem == 3

SortValues == 1..MaxElem

Arrays == UNION {[1..n -> SortValues] : n \in 0..MaxLen}

\* arr[i] for a 0-based index i inside the slice.
At(a, i) == a[i + 1]

\* An index a slice access accepts; any other index panics.
InSlice(a, i) == i >= 0 /\ i < Len(a)

\* arr.swap(i, j)
SwapAt(a, i, j) == [a EXCEPT ![i + 1] = a[j + 1], ![j + 1] = a[i + 1]]

\* The sort in progress: the slice, the Steps so far, the panic met ("" is
\* none) and the pivot index the last partition returned.
Sorting(a, steps, err, i) == [arr |-> a, steps |-> steps, err |-> err, i |-> i]

Panicked(q) == Sorting(q.arr, q.steps, "panic: index out of bounds", q.i)

\* The loop `for j in low..high` of partition; q.i is the running i.
RECURSIVE PartitionLoop(_, _, _, _)

\* "if arr[j] < pivot": the swap with its Step when i != j, then i += 1.
PartitionMove(q, pivot, j, high) ==
    IF ~(At(q.arr, j) < pivot) THEN PartitionLoop(q, pivot, j + 1, high)
    ELSE IF q.i = j THEN PartitionLoop(Sorting(q.arr, q.steps, "", q.i + 1), pivot, j + 1, high)
    ELSE IF ~InSlice(q.arr, q.i) THEN Panicked(q)
    ELSE PartitionLoop(
             Sorting(SwapAt(q.arr, q.i, j),
                     Append(q.steps,
                            Step("qs_swap", <<>>, <<q.i, j>>,
                                 <<At(q.arr, j), At(q.arr, q.i)>> \o SwapAt(q.arr, q.i, j), "")),
                     "", q.i + 1),
             pivot, j + 1, high)

\* One pass of the loop: the comparing Step, then the move.
PartitionCompare(q, pivot, j, high) ==
    IF ~InSlice(q.arr, j) THEN Panicked(q)
    ELSE PartitionMove(Sorting(q.arr,
                               Append(q.steps,
                                      Step("qs_compare", <<j, high>>, <<>>,
                                           <<At(q.arr, j), pivot>> \o q.arr, "")),
                               "", q.i),
                       pivot, j, high)

PartitionLoop(q, pivot, j, high) ==
    IF j >= high THEN q ELSE PartitionCompare(q, pivot, j, high)

\* The end of partition: the pivot is swapped into place, two Steps.
PartitionPlace(q, pivot, high) ==
    IF q.err # "" THEN q
    ELSE IF ~InSlice(q.arr, q.i) \/ ~InSlice(q.arr, high) THEN Panicked(q)
    ELSE Sorting(SwapAt(q.arr, q.i, high),
                 q.steps \o
                     <<Step("qs_place", <<>>, <<q.i, high>>,
                            <<At(q.arr, high), At(q.arr, q.i)>> \o SwapAt(q.arr, q.i, high), ""),
                       Step("qs_sorted", <<q.i>>, <<>>,
                            <<q.i>> \o SwapAt(q.arr, q.i, high), "")>>,
                 "", q.i)

\* partition(arr, low, high): the pivot is arr[high]; the result's i is the
\* index returned.
Partition(q, low, high) ==
    IF ~InSlice(q.arr, high) THEN Panicked(q)
    ELSE PartitionPlace(
             PartitionLoop(Sorting(q.arr,
                                   Append(q.steps,
                                          Step("qs_pivot", <<high>>, <<>>,
                                               <<At(q.arr, high), high>> \o q.arr, "")),
                                   "", low),
                           At(q.arr, high), low, high),
             At(q.arr, high), high)

RECURSIVE QuickSortHelper(_, _, _)

\* A helper that leaves the part right of the pivot unsorted.
QuickSortRightSkipped(q, i, high) == q

\* "if pivot_index < high": the part right of the pivot index i.
QuickSortRight(q, i, high) ==
    IF q.err = "" /\ i < high THEN QuickSortHelper(q, i + 1, high) ELSE q

\* "if pivot_index > 0": the part left of the pivot index p.i, then the
\* right one.
QuickSortLeft(p, low, high) ==
    IF p.err = "" /\ p.i > 0
    THEN QuickSortRight(QuickSortHelper(p, low, p.i - 1), p.i, high)
    ELSE QuickSortRight(p, p.i, high)

\* quick_sort_helper(arr, low, high, steps)
QuickSortHelper(q, low, high) ==
    IF q.err = "" /\ low < high THEN QuickSortLeft(Partition(q, low, high), low, high)
    ELSE q

\* The closing Step of quick_sort_with_steps.
QuickSortComplete(q) ==
    IF q.err # "" THEN Sorting(q.arr, <<>>, q.err, 0)
    ELSE Sorting(q.arr,
                 Append(q.steps,
                        Step("qs_complete", <<>>, [k \in 1..Len(q.arr) |-> k - 1], q.arr, "")),
                 "", 0)

\* quick_sort_with_steps(arr)
QuickSortWithSteps(a) ==
    IF Len(a) <= 1 THEN Sorting(a, <<>>, "", 0)
    ELSE QuickSortComplete(
             QuickSortHelper(Sorting(a, <<Step("qs_start", <<>>, <<>>, a, "")>>, "", 0),
                             0, Len(a) - 1))

----------------------------------------------------------------------------
(* Bubble, insertion, selection and merge sort (algorithms/sorting.rs).
   Every index these four read or write lies inside the slice by the bounds
   of their loops, and none of them returns Err. *)

\* The sort in progress after one more Step.
SortNote(q, s) == Sorting(q.arr, Append(q.steps, s), q.err, q.i)

\* The sort in progress with the running index or flag i.
SortIdx(q, i) == Sorting(q.arr, q.steps, q.err, i)

\* arr[i] = v for a 0-based index i.
SetAt(a, i, v) == [a EXCEPT ![i + 1] = v]

\* (lo..=hi).collect()
IndexRange(lo, hi) == [k \in 1..(hi - lo + 1) |-> lo + k - 1]

\* The closing Step of a sort: every index active.
SortComplete(q, kind) ==
    SortNote(q, Step(kind, <<>>, IndexRange(0, Len(q.arr) - 1), q.arr, ""))

\* The loop `for j in 0..n - i - 1` of bubble sort; q.i is 1 once the pass
\* has swapped.
RECURSIVE BubbleInner(_, _, _)

\* "if arr[j] > arr[j + 1]": the swap and its Step.
BubbleSwap(q, j, stop) ==
    IF At(q.arr, j) > At(q.arr, j + 1)
    THEN BubbleInner(
             SortIdx(SortNote(Sorting(SwapAt(q.arr, j, j + 1), q.steps, "", q.i),
                              Step("bs_swap", <<>>, <<j, j + 1>>,
                                   <<At(q.arr, j), At(q.arr, j + 1)>>
                                       \o SwapAt(q.arr, j, j + 1), "")),
                     1),
             j + 1, stop)
    ELSE BubbleInner(q, j + 1, stop)

BubbleInner(q, j, stop) ==
    IF j >= stop THEN q
    ELSE BubbleSwap(SortNote(q, Step("bs_compare", <<j, j + 1>>, <<>>,
                                     <<At(q.arr, j), At(q.arr, j + 1)>> \o q.arr, "")),
                    j, stop)

\* The loop `for i in 0..n` of bubble sort.
RECURSIVE BubbleOuter(_, _)

\* The end of a pass: the Step for the element in its final position, then
\* the break when the pass swapped nothing.
BubblePassEnd(p, i) ==
    IF p.i = 0
    THEN SortNote(SortNote(p, Step("bs_sorted", <<Len(p.arr) - i - 1>>, <<>>,
                                   <<At(p.arr, Len(p.arr) - i - 1), Len(p.arr) - i - 1>>
                                       \o p.arr, "")),
                  Step("bs_no_swaps", <<>>, <<>>, p.arr, ""))
    ELSE BubbleOuter(SortNote(p, Step("bs_sorted", <<Len(p.arr) - i - 1>>, <<>>,
                                      <<At(p.arr, Len(p.arr) - i - 1), Len(p.arr) - i - 1>>
                                          \o p.arr, "")),
                     i + 1)

BubbleOuter(q, i) ==
    IF i >= Len(q.arr) THEN q
    ELSE BubblePassEnd(BubbleInner(SortIdx(q, 0), 0, Len(q.arr) - i - 1), i)

\* bubble_sort_with_steps(arr)
BubbleSortWithSteps(a) ==
    IF Len(a) <= 1 THEN Sorting(a, <<>>, "", 0)
    ELSE SortIdx(SortComplete(
                     BubbleOuter(Sorting(a, <<Step("bs_start", <<>>, <<>>, a, "")>>, "", 0), 0),
                     "bs_complete"),
                 0)

\* The loop `while j > 0 && arr[j - 1] > key` of insertion sort; q.i is j.
RECURSIVE InsertionShift(_, _)

InsertionShift(q, key) ==
    IF q.i > 0 /\ At(q.arr, q.i - 1) > key
    THEN InsertionShift(
             SortNote(
                 Sorting(SetAt(q.arr, q.i, At(q.arr, q.i - 1)),
                         Append(q.steps,
                                Step("is_compare", <<q.i - 1, q.i>>, <<>>,
                                     <<At(q.arr, q.i - 1), key>> \o q.arr, "")),
                         "", q.i - 1),
                 Step("is_shift", <<>>, <<q.i - 1, q.i>>,
                      SetAt(q.arr, q.i, At(q.arr, q.i - 1)), "")),
             key)
    ELSE q

\* "arr[j] = key" and the two Steps that close the round i.
InsertionPlace(q, key, i) ==
    SortNote(SortNote(Sorting(SetAt(q.arr, q.i, key), q.steps, "", q.i),
                      Step("is_insert", <<q.i>>, <<>>,
                           <<key, q.i>> \o SetAt(q.arr, q.i, key), "")),
             Step("is_sorted", IndexRange(0, i), <<>>,
                  <<i>> \o SetAt(q.arr, q.i, key), ""))

\* The loop `for i in 1..n` of insertion sort.
RECURSIVE InsertionOuter(_, _)

InsertionOuter(q, i) ==
    IF i >= Len(q.arr) THEN q
    ELSE InsertionOuter(
             InsertionPlace(
                 InsertionShift(
                     SortIdx(SortNote(q, Step("is_select", <<i>>, <<>>,
                                              <<At(q.arr, i), i>> \o q.arr, "")),
                             i),
                     At(q.arr, i)),
                 At(q.arr, i), i),
             i + 1)

\* insertion_sort_with_steps(arr)
InsertionSortWithSteps(a) ==
    IF Len(a) <= 1 THEN Sorting(a, <<>>, "", 0)
    ELSE SortIdx(SortComplete(
                     InsertionOuter(Sorting(a, <<Step("is_start", <<>>, <<>>, a, "")>>, "", 0),
                                    1),
                     "is_complete"),
                 0)

\* The loop `for j in i + 1..n` of selection sort; q.i is min_idx.
RECURSIVE SelectionScan(_, _)

\* "if arr[j] < arr[min_idx]": the new minimum and its Step.
SelectionNewMin(q, j) ==
    IF At(q.arr, j) < At(q.arr, q.i)
    THEN SelectionScan(SortIdx(SortNote(q, Step("ss_new_min", <<j>>, <<>>,
                                                <<At(q.arr, j), j>> \o q.arr, "")),
                               j),
                       j + 1)
    ELSE SelectionScan(q, j + 1)

SelectionScan(q, j) ==
    IF j >= Len(q.arr) THEN q
    ELSE SelectionNewMin(SortNote(q, Step("ss_compare", <<j, q.i>>, <<>>,
                                          <<At(q.arr, j), At(q.arr, q.i)>> \o q.arr, "")),
                         j)

\* "if min_idx != i": the swap and its Step.
SelectionSwap(q, i) ==
    IF q.i # i
    THEN SortNote(Sorting(SwapAt(q.arr, i, q.i), q.steps, "", q.i),
                  Step("ss_swap", <<>>, <<i, q.i>>,
                       <<At(q.arr, i), q.i, At(q.arr, q.i), i>> \o SwapAt(q.arr, i, q.i), ""))
    ELSE q

\* The Step for the element in its final position at index i.
SelectionSorted(q, i) ==
    SortNote(q, Step("ss_sorted", <<i>>, <<>>, <<At(q.arr, i), i>> \o q.arr, ""))

\* The loop `for i in 0..n - 1` of selection sort.
RECURSIVE SelectionOuter(_, _)

SelectionOuter(q, i) ==
    IF i >= Len(q.arr) - 1 THEN q
    ELSE SelectionOuter(
             SelectionSorted(
                 SelectionSwap(
                     SelectionScan(
                         SortIdx(SortNote(q, Step("ss_select", <<i>>, <<>>, <<i>> \o q.arr, "")),
                                 i),
                         i + 1),
                     i),
                 i),
             i + 1)

\* selection_sort_with_steps(arr)
SelectionSortWithSteps(a) ==
    IF Len(a) <= 1 THEN Sorting(a, <<>>, "", 0)
    ELSE SortIdx(SortComplete(
                     SelectionOuter(Sorting(a, <<Step("ss_start", <<>>, <<>>, a, "")>>, "", 0),
                                    0),
                     "ss_complete"),
                 0)

\* The closing Step of merge.
MergeComplete(q, left, right) ==
    SortNote(q, Step("ms_merge_complete", IndexRange(left, right), <<>>,
                     <<left, right>> \o q.arr, ""))

\* "arr[k] = v" with its Step of the given kind.
MergePut(q, kind, v, k) ==
    SortNote(Sorting(SetAt(q.arr, k, v), q.steps, "", q.i),
             Step(kind, <<>>, <<k>>, <<v, k>> \o SetAt(q.arr, k, v), ""))

\* The loop `while j < right_half.len()` of merge, then the closing Step.
RECURSIVE MergeCopyRight(_, _, _, _, _, _)

MergeCopyRight(q, rh, j, k, left, right) ==
    IF j < Len(rh)
    THEN MergeCopyRight(MergePut(q, "ms_copy", rh[j + 1], k), rh, j + 1, k + 1, left, right)
    ELSE MergeComplete(q, left, right)

\* The loop `while i < left_half.len()` of merge, then the next loop.
RECURSIVE MergeCopyLeft(_, _, _, _, _, _, _, _)

MergeCopyLeft(q, lh, rh, i, j, k, left, right) ==
    IF i < Len(lh)
    THEN MergeCopyLeft(MergePut(q, "ms_copy", lh[i + 1], k), lh, rh, i + 1, j, k + 1,
                       left, right)
    ELSE MergeCopyRight(q, rh, j, k, left, right)

\* The loop `while i < left_half.len() && j < right_half.len()` of merge,
\* then the two copying loops.
RECURSIVE MergeLoop(_, _, _, _, _, _, _, _)

\* "if left_half[i] <= right_half[j]": the smaller one is placed at k.
MergePlace(q, lh, rh, i, j, k, left, right) ==
    IF lh[i + 1] <= rh[j + 1]
    THEN MergeLoop(MergePut(q, "ms_place", lh[i + 1], k), lh, rh, i + 1, j, k + 1,
                   left, right)
    ELSE MergeLoop(MergePut(q, "ms_place", rh[j + 1], k), lh, rh, i, j + 1, k + 1,
                   left, right)

MergeLoop(q, lh, rh, i, j, k, left, right) ==
    IF i < Len(lh) /\ j < Len(rh)
    THEN MergePlace(SortNote(q, Step("ms_compare", <<k>>, <<>>,
                                     <<lh[i + 1], rh[j + 1]>> \o q.arr, "")),
                    lh, rh, i, j, k, left, right)
    ELSE MergeCopyLeft(q, lh, rh, i, j, k, left, right)

\* merge(arr, left, mid, right, steps): the halves are copies of
\* arr[left..=mid] and arr[mid + 1..=right].
Merge(q, left, mid, right) ==
    MergeLoop(SortNote(q, Step("ms_merge_start", IndexRange(left, right), <<>>,
                               <<left, mid, mid + 1, right>> \o q.arr, "")),
              SubSeq(q.arr, left + 1, mid + 1), SubSeq(q.arr, mid + 2, right + 1),
              0, 0, left, left, right)

\* mid = left + (right - left) / 2
MergeMid(left, right) == left + (right - left) \div 2

\* merge_sort_helper(arr, left, right, steps)
RECURSIVE MergeSortHelper(_, _, _)

MergeSortHelper(q, left, right) ==
    IF left < right
    THEN Merge(MergeSortHelper(
                   MergeSortHelper(
                       SortNote(q, Step("ms_divide", IndexRange(left, right),
                                        <<MergeMid(left, right)>>,
                                        <<left, right, MergeMid(left, right)>> \o q.arr, "")),
                       left, MergeMid(left, right)),
                   MergeMid(left, right) + 1, right),
               left, MergeMid(left, right), right)
    ELSE q

\* merge_sort_with_steps(arr)
MergeSortWithSteps(a) ==
    IF Len(a) <= 1 THEN Sorting(a, <<>>, "", 0)
    ELSE SortComplete(
             MergeSortHelper(Sorting(a, <<Step("ms_start", <<>>, <<>>, a, "")>>, "", 0),
                             0, Len(a) - 1),
             "ms_complete")

----------------------------------------------------------------------------
(* The state machine *)

NoCall == [op |-> "new", val |-> 0, ret |-> TRUE, err |-> "", steps |-> <<>>]

\* No insert is being followed.
NoTrip == [phase |-> "none", val |-> 0, order |-> <<>>, size |-> 0, had |-> FALSE]

\* An insert of v starts a trip: it records the in-order sequence and the
\* size before the insert, and whether v was already there.
TripInsert(v) ==
    [phase |-> "inserted", val |-> v, order |-> CollectNodes(Tree), size |-> size,
     had |-> Search(Tree, v)]

\* A delete of v right after the insert of v completes the trip.
TripDelete(v) ==
    IF trip.phase = "inserted" /\ trip.val = v THEN [trip EXCEPT !.phase = "deleted"]
    ELSE NoTrip

\* ---------------------------------------------------------------------
\* The step player of the GUI: the fields of DsavApp that hold the Steps
\* of the last operation and the position of the playback in them.
\*
\* Time is counted in quarters of a second and the speed in quarters of
\* the normal speed, so that delta_time * animation_speed is a whole
\* number; every value the model uses is exact in f32.

\* The longest Step list an operation hands to the player.
MaxSteps == 4

\* The longest frame, in quarters of a second.
MaxDelta == 2

\* step_duration = 0.5 seconds, in the unit of time_since_last_step (a
\* quarter of a second at a quarter of the normal speed).
StepDuration == 8

\* Frame times (stable_dt), all positive.
Deltas == 1..MaxDelta

\* Positions of the speed slider (0.25..=4.0): 0.25, 1.0 and 4.0.
Speeds == {1, 4, 16}

\* The Step lists an operation can return: the k-th Step stands as k.
StepList(n) == [k \in 1..n |-> k]

\* DsavApp::new: no Steps, index 0, not playing, normal speed.  The field
\* underflow is an observer: it is set when (len - 1) is computed on an
\* empty list.
NewApp ==
    [current_steps |-> <<>>, current_step_index |-> 0, playing |-> FALSE,
     animation_speed |-> 4, time_since_last_step |-> 0, underflow |-> FALSE]

\* The observer after current_steps.len() - 1 was computed.
LenMinusOneTaken(a) == [a EXCEPT !.underflow = @ \/ a.current_steps = <<>>]

\* current_step_index < current_steps.len() - 1 in usize: on an empty list
\* the subtraction panics in a debug build and wraps to usize::MAX in a
\* release build, where every index the model reaches is below it.
BelowLast(a) ==
    IF a.current_steps = <<>> THEN TRUE
    ELSE a.current_step_index < Len(a.current_steps) - 1

\* An update that does not stop the playback at the last Step.
UpdateAdvanceGoesOn(a) ==
    IF BelowLast(a) THEN LenMinusOneTaken([a EXCEPT !.current_step_index = @ + 1])
    ELSE LenMinusOneTaken(a)

\* update, once the step duration has passed: one Step on, or the end.
UpdateAdvance(a) ==
    IF BelowLast(a) THEN LenMinusOneTaken([a EXCEPT !.current_step_index = @ + 1])
    ELSE LenMinusOneTaken([a EXCEPT !.playing = FALSE])

\* update, after the time of the frame was added.
UpdateElapsed(a) ==
    IF a.time_since_last_step >= StepDuration
    THEN UpdateAdvance([a EXCEPT !.time_since_last_step = 0])
    ELSE a

\* self.update(delta_time)
UpdateApp(a, d) ==
    IF a.playing /\ a.current_steps # <<>>
    THEN UpdateElapsed([a EXCEPT !.time_since_last_step = @ + d * a.animation_speed])
    ELSE a

\* The outcomes of structure.execute_with_steps(operation): Ok with n
\* Steps, or Err.
Outcomes == [ok : {TRUE}, n : 0..MaxSteps] \cup {[ok |-> FALSE, n |-> 0]}

\* A loading arm that keeps the index of the list before.
ExecuteLoadedKeepsIndex(a, n) ==
    IF n > 0
    THEN [a EXCEPT !.current_steps = StepList(n), !.playing = TRUE,
                   !.time_since_last_step = 0]
    ELSE a

\* The arm of execute_*_operation for Ok(steps).
ExecuteLoaded(a, n) ==
    IF n > 0
    THEN [a EXCEPT !.current_steps = StepList(n), !.current_step_index = 0,
                   !.playing = TRUE, !.time_since_last_step = 0]
    ELSE a

\* The arm of execute_*_operation for Err(e).
ExecuteFailed(a) == [a EXCEPT !.current_steps = <<>>, !.playing = FALSE]

\* self.execute_array_operation(operation) and its four siblings, for the
\* outcome o of the structure's execute_with_steps.
ExecuteOperation(a, o) == IF o.ok THEN ExecuteLoaded(a, o.n) ELSE ExecuteFailed(a)

\* The Randomize and Clear buttons of every structure.
ClearClicked(a) == [a EXCEPT !.current_steps = <<>>]

\* The Binary Search button: the array is sorted first; when that is Ok
\* the Steps are dropped and the search is executed with outcome o, when
\* it is Err only the status message changes.
BinarySearchClicked(a, sorted, o) ==
    IF sorted
    THEN ExecuteOperation([a EXCEPT !.current_steps = <<>>, !.playing = FALSE], o)
    ELSE a

\* Controls that are drawn whether or not there are Steps.
ControlsShownAlways(a) == TRUE

\* ui() draws the animation controls only when there are Steps.
ControlsShown(a) == a.current_steps # <<>>

\* The button "skip to start".
SkipBackClicked(a) ==
    [a EXCEPT !.current_step_index = 0, !.playing = FALSE, !.time_since_last_step = 0]

\* The button "play" or "pause".
PlayPauseClicked(a) == [a EXCEPT !.playing = ~@]

\* The buttons "skip forward" and "Step Forward": the same code twice.
StepForwardClicked(a) ==
    IF BelowLast(a)
    THEN LenMinusOneTaken([a EXCEPT !.current_step_index = @ + 1, !.playing = FALSE,
                                    !.time_since_last_step = 0])
    ELSE LenMinusOneTaken(a)

\* The button "Step Back".
StepBackClicked(a) ==
    IF a.current_step_index > 0
    THEN [a EXCEPT !.current_step_index = @ - 1, !.playing = FALSE,
                   !.time_since_last_step = 0]
    ELSE a

\* The speed slider.
SpeedSet(a, s) == [a EXCEPT !.animation_speed = s]

\* The objects beside the red-black tree as their constructors leave them.
OthersNew ==
    /\ bst = EmptyBst
    /\ stack = NewStack(StackCapacity)
    /\ queue = NewQueue(QueueCapacity)
    /\ arr = <<>>
    /\ hist = <<>>
    /\ app = NewApp

Init ==
    /\ root = NIL
    /\ size = 0
    /\ nodes = EmptyTree.nodes
    /\ last = NoCall
    /\ trip = NoTrip
    /\ OthersNew

SetTree(t) ==
    /\ root' = t.root
    /\ size' = t.size
    /\ nodes' = t.nodes

\* The record of a plain call and of an execute_with_steps call.
PlainCall(op, v, ret) == [op |-> op, val |-> v, ret |-> ret, err |-> "", steps |-> <<>>]

ExecCall(op, v, r) == [op |-> op, val |-> v, ret |-> r.err = "", err |-> r.err, steps |-> r.steps]

\* tree.insert(v)
Insert(v) ==
    /\ SetTree(InsertPlain(Tree, v))
    /\ last' = PlainCall("insert", v, TRUE)
    /\ trip' = TripInsert(v)
    /\ UNCHANGED others

\* tree.delete(v)
Delete(v) ==
    \E r \in {DeletePlain(Tree, v)} :
        /\ SetTree(r.tree)
        /\ last' = PlainCall("delete", v, r.ret)
        /\ trip' = TripDelete(v)
        /\ UNCHANGED others

\* tree.execute_with_steps(Operation::Insert(_, v))
ExecInsert(v) ==
    \E r \in {InsertWithSteps(Tree, v)} :
        /\ SetTree(r.tree)
        /\ last' = ExecCall("exec_insert", v, r)
        /\ trip' = TripInsert(v)
        /\ UNCHANGED others

\* tree.execute_with_steps(Operation::Delete(v))
ExecDelete(v) ==
    \E r \in {DeleteWithSteps(Tree, v)} :
        /\ SetTree(r.tree)
        /\ last' = ExecCall("exec_delete", v, r)
        /\ trip' = TripDelete(v)
        /\ UNCHANGED others

\* tree.execute_with_steps(Operation::Search(v))
ExecSearch(v) ==
    \E r \in {SearchWithSteps(Tree, v)} :
        /\ SetTree(r.tree)
        /\ last' = ExecCall("exec_search", v, r)
        /\ trip' = NoTrip
        /\ UNCHANGED others

\* tree.execute_with_steps(Operation::Traverse)
ExecTraverse ==
    \E r \in {TraverseWithSteps(Tree)} :
        /\ SetTree(r.tree)
        /\ last' = ExecCall("exec_traverse", 0, r)
        /\ trip' = NoTrip
        /\ UNCHANGED others

\* tree.execute_with_steps(op) for an Operation of the `_` arm
ExecOther(op) ==
    \E r \in {Unsupported(Tree)} :
        /\ SetTree(r.tree)
        /\ last' = ExecCall(op, 0, r)
        /\ trip' = NoTrip
        /\ UNCHANGED others

\* clear() that forgets to reset the node count.
ClearKeepsSize ==
    /\ root' = NIL
    /\ size' = size
    /\ nodes' = EmptyTree.nodes
    /\ last' = PlainCall("clear", 0, TRUE)
    /\ trip' = NoTrip
    /\ UNCHANGED others

\* tree.clear()
Clear ==
    /\ root' = NIL
    /\ size' = 0
    /\ nodes' = EmptyTree.nodes
    /\ last' = PlainCall("clear", 0, TRUE)
    /\ trip' = NoTrip
    /\ UNCHANGED others

Next ==
    \/ \E v \in Values : Insert(v)
    \/ \E v \in Values : Delete(v)
    \/ \E v \in Values : ExecInsert(v)
    \/ \E v \in Values : ExecDelete(v)
    \/ \E v \in Values : ExecSearch(v)
    \/ ExecTraverse
    \/ \E op \in OtherOperations : ExecOther(op)
    \/ Clear

Spec == Init /\ [][Next]_vars

\* The same calls with the values of the insertion tests.
NextFixup ==
    \/ \E v \in FixupValues : Insert(v)
    \/ \E v \in FixupValues : Delete(v)
    \/ \E v \in FixupValues : ExecInsert(v)
    \/ \E v \in FixupValues : ExecDelete(v)
    \/ \E v \in FixupValues : ExecSearch(v)
    \/ ExecTraverse
    \/ \E op \in OtherOperations : ExecOther(op)
    \/ Clear

SpecFixup == Init /\ [][NextFixup]_vars

\* The deep-tree runs: the values 1, 2, 3, ... inserted in ascending order.
DeepMax == 30

DeepValues == 1..DeepMax

InitDeep ==
    /\ root = NIL
    /\ size = 0
    /\ nodes = [h \in DeepValues |-> NoNode]
    /\ last = NoCall
    /\ trip = NoTrip
    /\ OthersNew

NextDeep ==
    \/ \E v \in DeepValues : v = size + 1 /\ Insert(v)
    \/ \E v \in DeepValues : v = size + 1 /\ ExecInsert(v)
    \/ \E v \in DeepValues : ExecSearch(v)

SpecDeep == InitDeep /\ [][NextDeep]_vars

\* The calls on the binary search tree; the other objects stay as they are.
\* bst.insert(v)
BstInsert(v) ==
    /\ BstSize(bst) < MaxBstSize
    /\ bst' = BstInsertPlain(bst, v)
    /\ last' = PlainCall("bst_insert", v, TRUE)
    /\ UNCHANGED <<rbvars, stack, queue, arr, hist, app>>

\* bst.execute_with_steps(Operation::Insert(_, v))
BstExecInsert(v) ==
    /\ BstSize(bst) < MaxBstSize
    /\ \E r \in {BstInsertWithSteps(bst, v)} :
          /\ bst' = r.tree
          /\ last' = ExecCall("bst_exec_insert", v, r)
    /\ UNCHANGED <<rbvars, stack, queue, arr, hist, app>>

\* bst.clear(): the root is dropped, and with it every node.
BstClear ==
    /\ bst' = EmptyBst
    /\ last' = PlainCall("bst_clear", 0, TRUE)
    /\ UNCHANGED <<rbvars, stack, queue, arr, hist, app>>

NextBst ==
    \/ \E v \in BstValues : BstInsert(v)
    \/ \E v \in BstValues : BstExecInsert(v)
    \/ BstClear

SpecBst == Init /\ [][NextBst]_vars

\* The record of a call that returns a Result and maybe Steps.
ResultCall(op, v, r) ==
    [op |-> op, val |-> v, ret |-> r.err = "", err |-> r.err, steps |-> r.steps]

\* The observer's note of a value going in or coming out.
WentIn(v) == [ev |-> "in", val |-> v]

CameOut(v) == [ev |-> "out", val |-> v]

\* The observer after a call with outcome r that, when Ok, is the event e.
Noted(r, e) == IF r.err = "" THEN Append(hist, e) ELSE hist

\* The calls on the stack; the other objects stay as they are.
\* stack.push(v)
Push(v) ==
    /\ Len(hist) < MaxOps
    /\ \E r \in {StackPush(stack, v)} :
          /\ stack' = r.obj
          /\ last' = ResultCall("push", v, r)
          /\ hist' = Noted(r, WentIn(v))
    /\ UNCHANGED <<rbvars, bst, queue, arr, app>>

\* stack.pop()
Pop ==
    /\ Len(hist) < MaxOps
    /\ \E r \in {StackPop(stack)} :
          /\ stack' = r.obj
          /\ last' = ResultCall("pop", r.val, r)
          /\ hist' = Noted(r, CameOut(r.val))
    /\ UNCHANGED <<rbvars, bst, queue, arr, app>>

\* stack.execute_with_steps(Operation::Push(v))
ExecPush(v) ==
    /\ Len(hist) < MaxOps
    /\ \E r \in {StackPushWithSteps(stack, v)} :
          /\ stack' = r.obj
          /\ last' = ResultCall("exec_push", v, r)
          /\ hist' = Noted(r, WentIn(v))
    /\ UNCHANGED <<rbvars, bst, queue, arr, app>>

\* stack.execute_with_steps(Operation::Pop)
ExecPop ==
    /\ Len(hist) < MaxOps
    /\ \E r \in {StackPopWithSteps(stack)} :
          /\ stack' = r.obj
          /\ last' = ResultCall("exec_pop", r.val, r)
          /\ hist' = Noted(r, CameOut(r.val))
    /\ UNCHANGED <<rbvars, bst, queue, arr, app>>

\* stack.clear(): the data go, the capacity stays; the observer starts
\* over, for nothing that went in before is held any longer.
StackClear ==
    /\ stack' = [stack EXCEPT !.data = <<>>]
    /\ last' = PlainCall("stack_clear", 0, TRUE)
    /\ hist' = <<>>
    /\ UNCHANGED <<rbvars, bst, queue, arr, app>>

NextStack ==
    \/ \E v \in Items : Push(v)
    \/ Pop
    \/ \E v \in Items : ExecPush(v)
    \/ ExecPop
    \/ StackClear

SpecStack == Init /\ [][NextStack]_vars

\* The calls on the queue; the other objects stay as they are.
\* queue.enqueue(v)
Enqueue(v) ==
    /\ Len(hist) < MaxOps
    /\ \E r \in {QueueEnqueue(queue, v)} :
          /\ queue' = r.obj
          /\ last' = ResultCall("enqueue", v, r)
          /\ hist' = Noted(r, WentIn(v))
    /\ UNCHANGED <<rbvars, bst, stack, arr, app>>

\* queue.dequeue()
Dequeue ==
    /\ Len(hist) < MaxOps
    /\ \E r \in {QueueDequeue(queue)} :
          /\ queue' = r.obj
          /\ last' = ResultCall("dequeue", r.val, r)
          /\ hist' = Noted(r, CameOut(r.val))
    /\ UNCHANGED <<rbvars, bst, stack, arr, app>>

\* queue.execute_with_steps(Operation::Enqueue(v))
ExecEnqueue(v) ==
    /\ Len(hist) < MaxOps
    /\ \E r \in {QueueEnqueueWithSteps(queue, v)} :
          /\ queue' = r.obj
          /\ last' = ResultCall("exec_enqueue", v, r)
          /\ hist' = Noted(r, WentIn(v))
    /\ UNCHANGED <<rbvars, bst, stack, arr, app>>

\* queue.execute_with_steps(Operation::Dequeue)
ExecDequeue ==
    /\ Len(hist) < MaxOps
    /\ \E r \in {QueueDequeueWithSteps(queue)} :
          /\ queue' = r.obj
          /\ last' = ResultCall("exec_dequeue", r.val, r)
          /\ hist' = Noted(r, CameOut(r.val))
    /\ UNCHANGED <<rbvars, bst, stack, arr, app>>

\* queue.clear(): the data go, the capacity stays; the observer starts
\* over.
QueueClear ==
    /\ queue' = [queue EXCEPT !.data = <<>>]
    /\ last' = PlainCall("queue_clear", 0, TRUE)
    /\ hist' = <<>>
    /\ UNCHANGED <<rbvars, bst, stack, arr, app>>

NextQueue ==
    \/ \E v \in Items : Enqueue(v)
    \/ Dequeue
    \/ \E v \in Items : ExecEnqueue(v)
    \/ ExecDequeue
    \/ QueueClear

SpecQueue == Init /\ [][NextQueue]_vars

\* A caller's slice of any length up to MaxLen, not yet sorted.
InitSort ==
    /\ root = NIL
    /\ size = 0
    /\ nodes = EmptyTree.nodes
    /\ last = NoCall
    /\ trip = NoTrip
    /\ bst = EmptyBst
    /\ stack = NewStack(StackCapacity)
    /\ queue = NewQueue(QueueCapacity)
    /\ arr \in Arrays
    /\ hist = <<>>
    /\ app = NewApp

\* quick_sort_with_steps(&mut arr)
QuickSort ==
    /\ \E r \in {QuickSortWithSteps(arr)} :
          /\ arr' = r.arr
          /\ last' = ResultCall("quick_sort", 0, r)
    /\ UNCHANGED <<rbvars, bst, stack, queue, hist, app>>

\* bubble_sort_with_steps(&mut arr)
BubbleSort ==
    /\ \E r \in {BubbleSortWithSteps(arr)} :
          /\ arr' = r.arr
          /\ last' = ResultCall("bubble_sort", 0, r)
    /\ UNCHANGED <<rbvars, bst, stack, queue, hist, app>>

\* insertion_sort_with_steps(&mut arr)
InsertionSort ==
    /\ \E r \in {InsertionSortWithSteps(arr)} :
          /\ arr' = r.arr
          /\ last' = ResultCall("insertion_sort", 0, r)
    /\ UNCHANGED <<rbvars, bst, stack, queue, hist, app>>

\* selection_sort_with_steps(&mut arr)
SelectionSort ==
    /\ \E r \in {SelectionSortWithSteps(arr)} :
          /\ arr' = r.arr
          /\ last' = ResultCall("selection_sort", 0, r)
    /\ UNCHANGED <<rbvars, bst, stack, queue, hist, app>>

\* merge_sort_with_steps(&mut arr)
MergeSort ==
    /\ \E r \in {MergeSortWithSteps(arr)} :
          /\ arr' = r.arr
          /\ last' = ResultCall("merge_sort", 0, r)
    /\ UNCHANGED <<rbvars, bst, stack, queue, hist, app>>

NextSort ==
    \/ QuickSort
    \/ BubbleSort
    \/ InsertionSort
    \/ SelectionSort
    \/ MergeSort

SpecSort == InitSort /\ [][NextSort]_vars

----------------------------------------------------------------------------
(* The private helpers rotate_left, rotate_right and transplant, called on
   their own on a tree that insert and delete have built.  The observer
   notes every such call, and once one was made the tree is only handed to
   further helper calls. *)

MaxHelperCalls == 2

HelperCalled(op, v) == [ev |-> op, val |-> v]

\* The nodes present in the tree.
Present == {h \in Handles : nodes[h] # NoNode}

\* self.rotate_left(x)
RotateLeftCall(x) ==
    /\ Len(hist) < MaxHelperCalls
    /\ SetTree(RotateLeft(Tree, x))
    /\ last' = PlainCall("rotate_left", x, TRUE)
    /\ trip' = NoTrip
    /\ hist' = Append(hist, HelperCalled("rotate_left", x))
    /\ UNCHANGED <<bst, stack, queue, arr, app>>

\* self.rotate_right(x)
RotateRightCall(x) ==
    /\ Len(hist) < MaxHelperCalls
    /\ SetTree(RotateRight(Tree, x))
    /\ last' = PlainCall("rotate_right", x, TRUE)
    /\ trip' = NoTrip
    /\ hist' = Append(hist, HelperCalled("rotate_right", x))
    /\ UNCHANGED <<bst, stack, queue, arr, app>>

\* The second argument delete_node hands to transplant for the node u: one
\* of u's children (None included) or the minimum of u's right subtree.
Replacements(u) ==
    {NIL, nodes[u].left, nodes[u].right}
        \cup (IF nodes[u].right = NIL THEN {} ELSE {TreeMinimum(nodes, nodes[u].right)})

\* self.transplant(u, v): the observer notes v.  It leaves u out of the
\* tree, which is then handed to no further helper.
TransplantCall(u, v) ==
    /\ Len(hist) < MaxHelperCalls
    /\ SetTree(Transplant(Tree, u, v))
    /\ last' = PlainCall("transplant", u, TRUE)
    /\ trip' = NoTrip
    /\ hist' = Append(hist, HelperCalled("transplant", v))
    /\ UNCHANGED <<bst, stack, queue, arr, app>>

NoTransplant == \A i \in 1..Len(hist) : hist[i].ev # "transplant"

NextHelpers ==
    \/ hist = <<>> /\ \E v \in Values : Insert(v)
    \/ hist = <<>> /\ \E v \in Values : Delete(v)
    \/ NoTransplant /\ \E x \in Present : RotateLeftCall(x)
    \/ NoTransplant /\ \E x \in Present : RotateRightCall(x)
    \/ NoTransplant /\ \E u \in Present : \E v \in Replacements(u) : TransplantCall(u, v)

SpecHelpers == Init /\ [][NextHelpers]_vars

----------------------------------------------------------------------------
(* Properties *)

\* The tree after the step.
TreeNext == [root |-> root', size |-> size', nodes |-> nodes']

\* Handles of the nodes reachable from `node` through child links.
RECURSIVE Subtree(_, _)
Subtree(n, node) ==
    IF node = NIL THEN {}
    ELSE {node} \cup Subtree(n, n[node].left) \cup Subtree(n, n[node].right)

Reachable == Subtree(nodes, root)

SubtreeValues(n, node) == {n[k].value : k \in Subtree(n, node)}

\* The numbers of Black nodes met on the paths from `node` down to a vacant subtree.
RECURSIVE PathBlackCounts(_, _)
PathBlackCounts(n, node) ==
    IF node = NIL THEN {0}
    ELSE LET below == PathBlackCounts(n, n[node].left) \cup PathBlackCounts(n, n[node].right)
             own   == IF n[node].color = "Black" THEN 1 ELSE 0
         IN  {c + own : c \in below}

NoRedRed(t) ==
    \A k \in Subtree(t.nodes, t.root) :
        t.nodes[k].color = "Red" =>
            ~IsRed(t.nodes, t.nodes[k].left) /\ ~IsRed(t.nodes, t.nodes[k].right)

BlackHeightUniform(t) == Cardinality(PathBlackCounts(t.nodes, t.root)) = 1

RootIsBlack(t) == t.root # NIL => t.nodes[t.root].color = "Black"

RBInvariants(t) == RootIsBlack(t) /\ NoRedRed(t) /\ BlackHeightUniform(t)

StrictlyIncreasing(seq) == \A i \in 1..(Len(seq) - 1) : seq[i] < seq[i + 1]

SeqRange(seq) == {seq[i] : i \in 1..Len(seq)}

Without(seq, v) == SelectSeq(seq, LAMBDA e : e # v)

StepKinds(steps) == {steps[i].kind : i \in 1..Len(steps)}

InsertOps == {"insert", "exec_insert"}

DeleteOps == {"delete", "exec_delete"}

\* C1: after every completed insert or delete, plain or stepped, no Red node
\* has a Red child and every root-to-vacant path holds the same number of
\* Black nodes.
C1_RedBlackShape == NoRedRed(Tree) /\ BlackHeightUniform(Tree)

\* A stepped delete that ran the fixup down to its line case, on a tree that
\* still has several nodes.
C1_Witness ==
    /\ last.op = "exec_delete"
    /\ {"del_line", "del_line_mirror"} \cap StepKinds(last.steps) # {}
    /\ size >= 4
    /\ \E k \in Reachable : nodes[k].color = "Red"

\* C2: after every completed insert or delete the root, if present, is Black.
C2_RootBlack == RootIsBlack(Tree)

\* A stepped insert whose recolouring chain reached the root and had to force it Black.
C2_Witness ==
    /\ last.op = "exec_insert"
    /\ "ins_root_recolor" \in StepKinds(last.steps)
    /\ root # NIL /\ nodes[root].color = "Black"

\* C3: in every reachable state the in-order sequence of values is sorted, and
\* for every node all values of its left subtree are smaller and all values
\* of its right subtree are larger than its own.
C3_BstOrdering ==
    /\ StrictlyIncreasing(CollectNodes(Tree))
    /\ \A k \in Reachable :
        /\ \A v \in SubtreeValues(nodes, nodes[k].left) : v < nodes[k].value
        /\ \A v \in SubtreeValues(nodes, nodes[k].right) : v > nodes[k].value

\* A stepped insert has just rotated through the triangle case in a tree of
\* at least five nodes that has an inner node with two children.
C3_Witness ==
    /\ last.op = "exec_insert"
    /\ {"ins_triangle", "ins_triangle_mirror"} \cap StepKinds(last.steps) # {}
    /\ size >= 5
    /\ \E k \in Reachable : nodes[k].left # NIL /\ nodes[k].right # NIL /\ k # root

\* C4: size() is the number of nodes reachable from the root, and is 0
\* exactly when there is no root, whatever calls were made.
C4_SizeConsistent ==
    /\ size = Cardinality(Reachable)
    /\ size = Len(CollectNodes(Tree))
    /\ (size = 0) <=> (root = NIL)

\* A delete of an absent value on a non-empty tree: nothing to count down.
C4_Witness ==
    /\ last.op = "delete"
    /\ ~last.ret
    /\ size >= 3

\* C5: inserting a value that is already present changes neither size, nor
\* the root, nor any node's colour or links; the stepped insert returns Ok
\* and its last Step is the duplicate marker.
C5_DuplicateInsertNoOp ==
    [][ (last'.op \in InsertOps /\ Search(Tree, last'.val)) =>
            /\ root' = root /\ size' = size /\ nodes' = nodes
            /\ last'.op = "exec_insert" =>
                  /\ last'.ret
                  /\ Len(last'.steps) > 0
                  /\ last'.steps[Len(last'.steps)].kind = "ins_duplicate" ]_vars

\* A stepped insert of a value that sits below the root has just returned the duplicate marker.
C5_Witness ==
    /\ last.op = "exec_insert"
    /\ Len(last.steps) >= 3
    /\ last.steps[Len(last.steps)].kind = "ins_duplicate"
    /\ last.val # nodes[root].value
    /\ Search(Tree, last.val)

\* C6: inserting an absent value v adds exactly v to the value set, raises
\* size by one, makes search(v) true and keeps every earlier value found.
C6_InsertAddsValue ==
    [][ (last'.op \in InsertOps /\ ~Search(Tree, last'.val)) =>
            /\ SeqRange(CollectNodes(TreeNext)) = SeqRange(CollectNodes(Tree)) \cup {last'.val}
            /\ size' = size + 1
            /\ Search(TreeNext, last'.val)
            /\ \A u \in SeqRange(CollectNodes(Tree)) : Search(TreeNext, u) ]_vars

\* A plain insert of a new value into a tree that already held four others.
C6_Witness ==
    /\ last.op = "insert"
    /\ trip.phase = "inserted" /\ ~trip.had
    /\ size >= 5
    /\ Search(Tree, last.val)

\* The tree of the deletion scenario: 50, 30, 70, 20, 40, 60, 80 inserted in this order.
ScenarioBuild == <<50, 30, 70, 20, 40, 60, 80>>

RECURSIVE InsertAll(_, _)
InsertAll(t, seq) ==
    IF seq = <<>> THEN t ELSE InsertAll(InsertPlain(t, Head(seq)), Tail(seq))

ScenarioTree == InsertAll(EmptyTree, ScenarioBuild)

\* C7: deleting a present value v removes exactly v from the in-order
\* sequence, lowers size by one and leaves the red-black invariants holding;
\* from the scenario tree, deleting 30 leaves 20,40,50,60,70,80 and size 6.
C7_DeleteRemovesValue ==
    [][ (last'.op \in DeleteOps /\ Search(Tree, last'.val)) =>
            /\ CollectNodes(TreeNext) = Without(CollectNodes(Tree), last'.val)
            /\ Len(CollectNodes(TreeNext)) = Len(CollectNodes(Tree)) - 1
            /\ size' = size - 1
            /\ RBInvariants(TreeNext)
            /\ (Tree = ScenarioTree /\ last'.val = 30) =>
                  /\ CollectNodes(TreeNext) = <<20, 40, 50, 60, 70, 80>>
                  /\ size' = 6 ]_vars

\* The scenario itself: 30, a node with two children, was just deleted from the scenario tree.
C7_Witness ==
    /\ last.op = "delete" /\ last.val = 30 /\ last.ret
    /\ Tree = DeletePlain(ScenarioTree, 30).tree
    /\ ScenarioTree.nodes[30].left # NIL /\ ScenarioTree.nodes[30].right # NIL
    /\ CollectNodes(Tree) = <<20, 40, 50, 60, 70, 80>>

\* C8: deleting an absent value is no error and no change: plain delete
\* returns false, the stepped delete returns Ok with a not-found Step, and
\* root, size, colours and links stay as they were.
C8_DeleteAbsentNoOp ==
    [][ (last'.op \in DeleteOps /\ ~Search(Tree, last'.val)) =>
            /\ root' = root /\ size' = size /\ nodes' = nodes
            /\ last'.op = "delete" => ~last'.ret
            /\ last'.op = "exec_delete" =>
                  /\ last'.ret /\ last'.err = ""
                  /\ "del_not_found" \in StepKinds(last'.steps) ]_vars

\* A stepped delete of an absent value on a non-empty tree has just returned.
C8_Witness ==
    /\ last.op = "exec_delete"
    /\ "del_not_found" \in StepKinds(last.steps)
    /\ size >= 2
    /\ ~Search(Tree, last.val)

\* C9 as stated: for every value v, an insert of v followed at once by a
\* delete of v leaves the in-order sequence and the size as they were before
\* the insert.
C9_RoundTripAnyValue ==
    trip.phase = "deleted" =>
        CollectNodes(Tree) = trip.order /\ size = trip.size

\* C9 amended: the same for every value v that was not in the tree before the insert.
C9_RoundTripFreshValue ==
    (trip.phase = "deleted" /\ ~trip.had) =>
        CollectNodes(Tree) = trip.order /\ size = trip.size

\* A new value was inserted into a tree of at least four nodes and deleted again at once.
C9_Witness ==
    /\ trip.phase = "deleted" /\ ~trip.had
    /\ last.op \in DeleteOps /\ last.val = trip.val
    /\ trip.size >= 4
    /\ size = trip.size

\* C10: after every completed insert or delete the root has no parent, every
\* other reachable node is the left or the right child of the node its
\* parent field names, and that node is itself in the tree.
C10_ParentLinksMirror ==
    /\ root # NIL => nodes[root].parent = NIL
    /\ \A k \in Reachable \ {root} :
        LET p == nodes[k].parent
        IN  /\ p \in Reachable
            /\ nodes[p].left = k \/ nodes[p].right = k
    /\ \A k \in Reachable :
        /\ nodes[k].left # NIL => nodes[nodes[k].left].parent = k
        /\ nodes[k].right # NIL => nodes[nodes[k].right].parent = k

\* A stepped delete of a node with two children whose successor lay deeper
\* than its right child, so that both transplants and the re-linking ran.
C10_Witness ==
    /\ last.op = "exec_delete"
    /\ "del_replaced" \in StepKinds(last.steps)
    /\ \E i \in 1..Len(last.steps) :
          /\ last.steps[i].kind = "del_two_children"
          /\ last.steps[i].highlight[1] # 2 * last.steps[i].active[1] + 2
    /\ size >= 4
    /\ \E k \in Reachable \ {root} : nodes[k].left # NIL /\ nodes[k].right # NIL

\* The position index of node k read off its parent links: the root is 0,
\* a left child 2i+1 and a right child 2i+2 of its parent's index i.
RECURSIVE Position(_, _)
Position(n, k) ==
    IF n[k].parent = NIL THEN 0
    ELSE IF n[n[k].parent].left = k THEN 2 * Position(n, n[k].parent) + 1
    ELSE 2 * Position(n, n[k].parent) + 2

\* The child of node k on the side where value v belongs.
ChildToward(n, k, v) == IF v < n[k].value THEN n[k].left ELSE n[k].right

\* C11: a stepped search returns Ok and leaves root, size, colours and links
\* as they were; after its start Step it has one checking Step for the root
\* and then one for each child taken by comparing the target, each with that
\* node's position, value and colour; it stops at the node holding the
\* target, ending with a found Step, or where the side to take is vacant,
\* ending with a not-found Step; it ends found iff the target is in the tree,
\* and the plain search(v) is true iff v is in the tree.
C11_SearchDescends ==
    [][ last'.op = "exec_search" =>
          LET st      == last'.steps
              m       == Len(st)
              v       == last'.val
              present == v \in SubtreeValues(nodes, root)
          IN  /\ root' = root /\ size' = size /\ nodes' = nodes
              /\ last'.ret /\ last'.err = ""
              /\ m >= 2
              /\ st[1].kind = "search_start"
              /\ st[m].kind = IF present THEN "search_found" ELSE "search_not_found"
              /\ (root = NIL) <=> (m = 2)
              /\ \A i \in 2..(m - 1) :
                    /\ st[i].kind = "search_checking"
                    /\ \E k \in Reachable :
                          /\ st[i].highlight = <<Position(nodes, k)>>
                          /\ st[i].vals = <<nodes[k].value>>
                          /\ st[i].color = ColorName(nodes, k)
                          /\ (i = 2) => k = root
                          /\ (i > 2) =>
                                /\ nodes[k].parent # NIL
                                /\ st[i - 1].vals = <<nodes[nodes[k].parent].value>>
                                /\ ChildToward(nodes, nodes[k].parent, v) = k
                          /\ (i < m - 1) => nodes[k].value # v
                          /\ (i = m - 1) =>
                                IF present
                                THEN nodes[k].value = v /\ st[m].active = <<Position(nodes, k)>>
                                ELSE nodes[k].value # v /\ ChildToward(nodes, k, v) = NIL
              /\ \A u \in Values : Search(Tree, u) <=> (u \in SubtreeValues(nodes, root)) ]_vars

\* A stepped search has just found a value two levels below the root.
C11_Witness ==
    /\ last.op = "exec_search"
    /\ Len(last.steps) = 5
    /\ last.steps[5].kind = "search_found"
    /\ last.steps[5].active \in {<<3>>, <<4>>, <<5>>, <<6>>}
    /\ Search(Tree, last.val)

\* The visit Steps of a traversal trace and the values they carry.
Visits(steps) == SelectSeq(steps, LAMBDA st : st.kind = "traverse_visit")

VisitValues(steps) == [i \in 1..Len(Visits(steps)) |-> Visits(steps)[i].vals[1]]

RECURSIVE PreOrder(_, _)
PreOrder(n, node) ==
    IF node = NIL THEN <<>>
    ELSE <<n[node].value>> \o PreOrder(n, n[node].left) \o PreOrder(n, n[node].right)

RECURSIVE PostOrder(_, _)
PostOrder(n, node) ==
    IF node = NIL THEN <<>>
    ELSE PostOrder(n, n[node].left) \o PostOrder(n, n[node].right) \o <<n[node].value>>

\* Level order is the order of increasing position index.
IsLevelOrder(vals) ==
    /\ Len(vals) = Cardinality(Reachable)
    /\ \A i \in 1..Len(vals) : vals[i] \in Reachable
    /\ \A i \in 1..(Len(vals) - 1) : Position(nodes, vals[i]) < Position(nodes, vals[i + 1])

TraverseRequests == {"exec_traverse", "PreOrderTraverse", "PostOrderTraverse", "LevelOrderTraverse"}

\* C12 as stated: a Traverse request of any of the four orders is answered Ok
\* with a trace whose visit Steps go through every node of the tree exactly
\* once in that order.
C12_FourTraversalOrders ==
    last.op \in TraverseRequests =>
        /\ last.ret
        /\ Len(Visits(last.steps)) = Cardinality(Reachable)
        /\ last.op = "exec_traverse" => VisitValues(last.steps) = CollectNodes(Tree)
        /\ last.op = "PreOrderTraverse" => VisitValues(last.steps) = PreOrder(nodes, root)
        /\ last.op = "PostOrderTraverse" => VisitValues(last.steps) = PostOrder(nodes, root)
        /\ last.op = "LevelOrderTraverse" => IsLevelOrder(VisitValues(last.steps))

\* C13: an in-order Traverse returns Ok and leaves root, size, colours and
\* links as they were; its trace is a start Step, size() visit Steps and a
\* completion Step; the visited values are strictly ascending; every visit
\* Step carries the value, the colour and the position index (root 0, left
\* 2i+1, right 2i+2) of one node, and no two visits carry the same index.
C13_InorderTraverse ==
    [][ last'.op = "exec_traverse" =>
          LET st == last'.steps
              m  == Len(st)
          IN  /\ root' = root /\ size' = size /\ nodes' = nodes
              /\ last'.ret /\ last'.err = ""
              /\ m = size + 2
              /\ st[1].kind = "traverse_start"
              /\ st[m].kind = "traverse_complete"
              /\ \A i \in 2..(m - 1) :
                    /\ st[i].kind = "traverse_visit"
                    /\ \E k \in Reachable :
                          /\ st[i].vals = <<nodes[k].value, Position(nodes, k)>>
                          /\ st[i].highlight = <<Position(nodes, k)>>
                          /\ st[i].color = ColorName(nodes, k)
              /\ \A i \in 2..(m - 2) : st[i].vals[1] < st[i + 1].vals[1]
              /\ \A i, j \in 2..(m - 1) : i # j => st[i].highlight # st[j].highlight ]_vars

\* An in-order traversal of a tree of at least six nodes of both colours has just returned.
C13_Witness ==
    /\ last.op = "exec_traverse"
    /\ size >= 6
    /\ Len(last.steps) = size + 2
    /\ \E i, j \in 2..(Len(last.steps) - 1) :
          last.steps[i].color = "red" /\ last.steps[j].color = "black"

\* C15: an Operation of the `_` arm returns the Visualization error and no
\* Steps, and leaves root, size, colours and links as they were.
C15_UnsupportedRejected ==
    [][ last'.op \in OtherOperations =>
          /\ ~last'.ret
          /\ last'.err = "Visualization"
          /\ last'.steps = <<>>
          /\ root' = root /\ size' = size /\ nodes' = nodes ]_vars

\* A Push was just refused by a tree of at least three nodes.
C15_Witness ==
    /\ last.op = "Push"
    /\ last.err = "Visualization"
    /\ size >= 3

\* C14 as stated: render_state() shows every node of the tree as the element
\* at the node's position index, with the node's value and colour, and its
\* connection list holds exactly the (parent index, child index) pairs of
\* the tree's parent-child links, each once.
C14_RenderProjectsWholeTree ==
    LET r     == RenderState(Tree)
        links == {<<Position(nodes, nodes[k].parent), Position(nodes, k)>> :
                     k \in Reachable \ {root}}
    IN  /\ \A k \in Reachable :
              /\ Position(nodes, k) < Len(r.elements)
              /\ r.elements[Position(nodes, k) + 1].value = nodes[k].value
              /\ r.elements[Position(nodes, k) + 1].label = <<nodes[k].value>>
              /\ r.elements[Position(nodes, k) + 1].sublabel =
                     (IF nodes[k].color = "Red" THEN "R" ELSE "B")
        /\ SeqRange(r.connections) = links
        /\ Len(r.connections) = Cardinality(links)

\* C17: a new tree has no root, size 0 and is_empty() true; in every
\* reachable state is_empty() is true exactly when there is no root; and
\* clear() from any state leaves no root, size 0 and is_empty() true.
C17_EmptyAndClear ==
    /\ (root = NIL /\ size = 0 /\ IsEmpty(Tree))
    /\ [](IsEmpty(Tree) <=> (root = NIL))
    /\ [][ last'.op = "clear" =>
              /\ root' = NIL /\ size' = 0
              /\ IsEmpty(TreeNext)
              /\ TreeNext = EmptyTree ]_vars

\* clear() has just emptied the tree.
C17_Witness ==
    /\ last.op = "clear"
    /\ root = NIL /\ size = 0
    /\ IsEmpty(Tree)

\* What an insert of last'.val into the empty tree leaves: one Black node
\* without links holding the value, as root, and size 1.
SingleBlackRoot ==
    /\ root' # NIL
    /\ nodes'[root'] = [value |-> last'.val, color |-> "Black",
                        left |-> NIL, right |-> NIL, parent |-> NIL]
    /\ Subtree(nodes', root') = {root'}
    /\ size' = 1

FixupStepKinds ==
    {"ins_state", "ins_uncle_red", "ins_uncle_red_mirror", "ins_triangle",
     "ins_triangle_mirror", "ins_line", "ins_line_mirror", "ins_fixup_end",
     "ins_root_recolor", "ins_restored"}

\* C18 as stated: an insert into the empty tree creates a single Black root
\* holding the value, sets size to 1, runs no fixup, and the stepped insert
\* returns one Step.
C18_EmptyInsertOneStep ==
    [][ (last'.op \in InsertOps /\ root = NIL) =>
          /\ SingleBlackRoot
          /\ last'.op = "exec_insert" =>
                /\ last'.ret
                /\ StepKinds(last'.steps) \cap FixupStepKinds = {}
                /\ Len(last'.steps) = 1 ]_vars

\* C18 amended: the same, where the stepped insert returns the opening Step
\* that starts every stepped insert and then one Step for the new root (two
\* Steps in all), the latter naming position 0, the value and the colour black.
C18_EmptyInsertRootStep ==
    [][ (last'.op \in InsertOps /\ root = NIL) =>
          /\ SingleBlackRoot
          /\ last'.op = "exec_insert" =>
                /\ last'.ret
                /\ StepKinds(last'.steps) \cap FixupStepKinds = {}
                /\ Len(last'.steps) = 2
                /\ last'.steps[1].kind = "ins_start"
                /\ last'.steps[2] = Step("ins_new_root", <<>>, <<0>>, <<last'.val>>, "black") ]_vars

\* A stepped insert into the empty tree has just returned.
C18_Witness ==
    /\ last.op = "exec_insert"
    /\ size = 1
    /\ root = last.val
    /\ nodes[root].color = "Black"
    /\ "ins_new_root" \in StepKinds(last.steps)

UncleRedKinds == {"ins_uncle_red", "ins_uncle_red_mirror"}

RotationKinds == {"ins_triangle", "ins_triangle_mirror", "ins_line", "ins_line_mirror"}

\* The tree the first i - 1 inserts of seq build from the empty tree.
BuiltBefore(seq, i) == InsertAll(EmptyTree, SubSeq(seq, 1, i - 1))

\* The insert of v that took tree t to tn added v as a leaf and changed no
\* other link.
OnlyLeafLinked(t, tn, v) ==
    /\ tn.root = t.root
    /\ \A k \in Subtree(t.nodes, t.root) :
          /\ tn.nodes[k].parent = t.nodes[k].parent
          /\ tn.nodes[k].left = t.nodes[k].left
                \/ (t.nodes[k].left = NIL /\ tn.nodes[k].left = v)
          /\ tn.nodes[k].right = t.nodes[k].right
                \/ (t.nodes[k].right = NIL /\ tn.nodes[k].right = v)

\* The uncle-red Step at st[i] of the insert of v that took t to tn: st[i - 1]
\* is the state Step of the iteration with parent p, grandparent g and uncle u.
UncleRedIteration(t, tn, v, st, i, p, g, u) ==
    /\ u # 0 /\ st[i - 1].vals[5] = 1
    /\ t.nodes[p].color = "Red" /\ t.nodes[u].color = "Red" /\ t.nodes[g].color = "Black"
    /\ {t.nodes[g].left, t.nodes[g].right} = {p, u}
    /\ st[i].kind = (IF t.nodes[g].left = p THEN "ins_uncle_red" ELSE "ins_uncle_red_mirror")
    /\ st[i].highlight = <<Position(t.nodes, p), Position(t.nodes, g), Position(t.nodes, u)>>
    /\ tn.nodes[p].color = "Black" /\ tn.nodes[u].color = "Black"
    /\ st[i + 1].kind \in {"ins_state", "ins_fixup_end"}
    /\ st[i + 1].kind = "ins_state" =>
          /\ st[i + 1].vals[1] = g
          /\ st[i + 1].vals[2] = t.nodes[g].parent
    /\ st[i + 1].kind = "ins_fixup_end" =>
          IF g = t.root
          THEN /\ st[i + 2].kind = "ins_root_recolor"
               /\ OnlyLeafLinked(t, tn, v)
               /\ tn.nodes[g].color = "Black"
          ELSE /\ st[i + 2].kind = "ins_restored"
               /\ OnlyLeafLinked(t, tn, v)
               /\ tn.nodes[g].color = "Red"
               /\ tn.nodes[tn.nodes[g].parent].color = "Black"

\* The Steps st of the stepped insert of v that took t to tn: every state
\* Step that reports a Red uncle is followed by the uncle-red Step, and every
\* uncle-red Step is such an iteration.
UncleRedSteps(t, tn, v, st) ==
    /\ \A i \in 1..Len(st) :
          (st[i].kind = "ins_state" /\ st[i].vals[5] = 1) =>
              (i < Len(st) /\ st[i + 1].kind \in UncleRedKinds)
    /\ \A i \in 1..Len(st) :
          st[i].kind \in UncleRedKinds =>
              /\ i > 1 /\ i + 1 < Len(st)
              /\ st[i - 1].kind = "ins_state"
              /\ UncleRedIteration(t, tn, v, st, i, st[i - 1].vals[2], st[i - 1].vals[3],
                                   st[i - 1].vals[4])

UncleRedInserts == <<50, 25, 75, 10>>

\* Nine ascending inserts, after which the insert of 80 meets a Red uncle
\* twice on its way up.
AscendingTree == InsertAll(EmptyTree, <<10, 20, 25, 30, 40, 50, 60, 70, 75>>)

AscendingInsert == InsertWithSteps(AscendingTree, 80)

\* The uncle-red iterations of the insert of 80 into the ascending tree: two
\* uncle-red Steps, the second one for the grandparent of the first.
UncleRedTwice ==
    /\ AscendingInsert.err = ""
    /\ UncleRedSteps(AscendingTree, AscendingInsert.tree, 80, AscendingInsert.steps)
    /\ Len(SelectSeq(AscendingInsert.steps, LAMBDA s : s.kind \in UncleRedKinds)) = 2
    /\ StepKinds(AscendingInsert.steps) \cap RotationKinds = {}
    /\ RBInvariants(AscendingInsert.tree)

\* C19: whenever insertion fixup meets a Red uncle it only recolours: parent
\* and uncle become Black and the grandparent Red, no link changes in that
\* iteration, an uncle-red Step is emitted and the loop goes on from the
\* grandparent (as the second iteration of the insert of 80 after nine
\* ascending inserts shows), and the plain insert yields the same tree;
\* inserting 50, 25, 75, 10 into the empty tree
\* meets the case on the fourth insert and not before, and leaves 50 as the
\* Black root, size 4 and the red-black invariants holding.
C19_UncleRedRecolours ==
    [][ /\ UncleRedTwice
        /\ last'.op = "exec_insert" =>
              /\ last'.ret
              /\ UncleRedSteps(Tree, TreeNext, last'.val, last'.steps)
        /\ last'.op = "insert" =>
              \A r \in {InsertWithSteps(Tree, last'.val)} :
                  StepKinds(r.steps) \cap UncleRedKinds # {} => TreeNext = r.tree
        /\ \A i \in 1..Len(UncleRedInserts) :
              ( /\ last'.op \in InsertOps
                /\ Tree = BuiltBefore(UncleRedInserts, i)
                /\ last'.val = UncleRedInserts[i] ) =>
                  /\ last'.op = "exec_insert" =>
                        ((StepKinds(last'.steps) \cap UncleRedKinds # {}) <=> (i = 4))
                  /\ i = 4 =>
                        /\ root' = 50 /\ nodes'[50].color = "Black"
                        /\ size' = 4
                        /\ CollectNodes(TreeNext) = <<10, 25, 50, 75>>
                        /\ RBInvariants(TreeNext) ]_vars

\* The fourth insert of the scenario has just met the Red uncle 75.
C19_Witness ==
    /\ last.op = "exec_insert" /\ last.val = 10
    /\ Tree = InsertAll(EmptyTree, UncleRedInserts)
    /\ StepKinds(last.steps) \cap UncleRedKinds # {}
    /\ nodes[25].color = "Black" /\ nodes[75].color = "Black"
    /\ root = 50 /\ size = 4

TriangleKinds == {"ins_triangle", "ins_triangle_mirror"}

\* z, a child of p, is the inner grandchild of g: on the side of p away from
\* the side p has under g (by the order of the values).
IsInnerGrandchild(t, z, p, g) == IF t.nodes[g].left = p THEN z > p ELSE z < p

\* Node c, when there is one, hangs under k in tree tn.
HangsUnder(tn, c, k) == c # NIL => tn.nodes[c].parent = k

\* Node z stands in tree tn where g stood in tree t.
StandsFor(t, tn, z, g) ==
    /\ tn.nodes[z].parent = t.nodes[g].parent
    /\ IF t.nodes[g].parent = NIL THEN tn.root = z
       ELSE IF t.nodes[t.nodes[g].parent].left = g
       THEN tn.nodes[t.nodes[g].parent].left = z
       ELSE tn.nodes[t.nodes[g].parent].right = z

\* What a left rotation at p (a left child) followed by the line case at g
\* leaves of z, p and g: z on top and Black, p and g its Red children, the
\* former children of z handed to p and g.
TriangleShape(t, tn, z, p, g) ==
    /\ StandsFor(t, tn, z, g)
    /\ tn.nodes[z].color = "Black" /\ tn.nodes[p].color = "Red" /\ tn.nodes[g].color = "Red"
    /\ tn.nodes[z].left = p /\ tn.nodes[z].right = g
    /\ tn.nodes[p].parent = z /\ tn.nodes[g].parent = z
    /\ tn.nodes[p].left = t.nodes[p].left /\ tn.nodes[p].right = t.nodes[z].left
    /\ tn.nodes[g].left = t.nodes[z].right /\ tn.nodes[g].right = t.nodes[g].right
    /\ HangsUnder(tn, t.nodes[z].left, p) /\ HangsUnder(tn, t.nodes[z].right, g)

\* The same for a right rotation at p (a right child) and the mirrored line case.
TriangleShapeMirror(t, tn, z, p, g) ==
    /\ StandsFor(t, tn, z, g)
    /\ tn.nodes[z].color = "Black" /\ tn.nodes[p].color = "Red" /\ tn.nodes[g].color = "Red"
    /\ tn.nodes[z].right = p /\ tn.nodes[z].left = g
    /\ tn.nodes[p].parent = z /\ tn.nodes[g].parent = z
    /\ tn.nodes[p].right = t.nodes[p].right /\ tn.nodes[p].left = t.nodes[z].right
    /\ tn.nodes[g].right = t.nodes[z].left /\ tn.nodes[g].left = t.nodes[g].left
    /\ HangsUnder(tn, t.nodes[z].right, p) /\ HangsUnder(tn, t.nodes[z].left, g)

\* The iteration whose state Step is st[i], with current node z the inner
\* grandchild: the triangle Step, the line Step of the same side, the end.
TriangleIteration(t, tn, st, i, z, p, g) ==
    IF t.nodes[g].left = p
    THEN /\ st[i + 1] = Step("ins_triangle",
                             <<2 * Position(t.nodes, p) + 2, Position(t.nodes, p)>>,
                             <<>>, <<p>>, "")
         /\ st[i + 2] = Step("ins_line", <<Position(t.nodes, p), Position(t.nodes, g)>>,
                             <<>>, <<g>>, "")
         /\ TriangleShape(t, tn, z, p, g)
    ELSE /\ st[i + 1] = Step("ins_triangle_mirror",
                             <<2 * Position(t.nodes, p) + 1, Position(t.nodes, p)>>,
                             <<>>, <<p>>, "")
         /\ st[i + 2] = Step("ins_line_mirror", <<Position(t.nodes, p), Position(t.nodes, g)>>,
                             <<>>, <<g>>, "")
         /\ TriangleShapeMirror(t, tn, z, p, g)

\* The Steps st of the stepped insert that took t to tn: a state Step with a
\* Black uncle and the current node the inner grandchild starts a triangle
\* iteration, and every triangle Step belongs to one.
TriangleSteps(t, tn, st) ==
    /\ \A i \in 1..Len(st) :
          ( /\ st[i].kind = "ins_state" /\ st[i].vals[5] = 0
            /\ IsInnerGrandchild(t, st[i].vals[1], st[i].vals[2], st[i].vals[3]) ) =>
              /\ Len(st) = i + 3
              /\ st[i + 3].kind = "ins_restored"
              /\ TriangleIteration(t, tn, st, i, st[i].vals[1], st[i].vals[2], st[i].vals[3])
    /\ \A i \in 1..Len(st) :
          st[i].kind \in TriangleKinds =>
              /\ i > 1
              /\ st[i - 1].kind = "ins_state" /\ st[i - 1].vals[5] = 0
              /\ IsInnerGrandchild(t, st[i - 1].vals[1], st[i - 1].vals[2], st[i - 1].vals[3])

TriangleInserts == <<50, 25, 30>>

\* Seven inserts after which the insert of 25 meets a Red uncle and then, two
\* levels up, the triangle; and the mirror image with the insert of 60.
RecolourThenTriangle == InsertAll(EmptyTree, <<30, 70, 60, 20, 10, 50, 40>>)

RecolourThenTriangleMirror == InsertAll(EmptyTree, <<25, 10, 20, 75, 80, 70, 30>>)

\* The stepped insert of v into t meets the Red uncle and then the triangle
\* of the given kind.
TriangleAbove(t, v, kind) ==
    \A r \in {InsertWithSteps(t, v)} :
        /\ r.err = ""
        /\ StepKinds(r.steps) \cap UncleRedKinds # {}
        /\ kind \in StepKinds(r.steps)
        /\ TriangleSteps(t, r.tree, r.steps)
        /\ InsertPlain(t, v) = r.tree
        /\ RBInvariants(r.tree)

TriangleAfterRecolour ==
    /\ TriangleAbove(RecolourThenTriangle, 25, "ins_triangle")
    /\ TriangleAbove(RecolourThenTriangleMirror, 60, "ins_triangle_mirror")

\* C20: whenever insertion fixup finds the uncle Black and the current node
\* the inner grandchild, it emits a triangle Step, rotates at the parent
\* away from the parent's side and runs the line case in the same iteration,
\* which ends the fixup: the current node ends Black above its former
\* parent and grandparent, both Red (also when the triangle is met two
\* levels above the new node, and in the plain insert); inserting 50, 25, 30
\* into the empty tree meets the case on the third insert and not before and
\* leaves in-order 25, 30, 50 with 30 the Black root and 25 and 50 its Red
\* children.
C20_TriangleThenLine ==
    [][ /\ TriangleAfterRecolour
        /\ last'.op = "exec_insert" =>
              /\ last'.ret
              /\ TriangleSteps(Tree, TreeNext, last'.steps)
        /\ last'.op = "insert" =>
              \A r \in {InsertWithSteps(Tree, last'.val)} :
                  StepKinds(r.steps) \cap TriangleKinds # {} => TreeNext = r.tree
        /\ \A i \in 1..Len(TriangleInserts) :
              ( /\ last'.op \in InsertOps
                /\ Tree = BuiltBefore(TriangleInserts, i)
                /\ last'.val = TriangleInserts[i] ) =>
                  /\ last'.op = "exec_insert" =>
                        (("ins_triangle" \in StepKinds(last'.steps)) <=> (i = 3))
                  /\ i = 3 =>
                        /\ CollectNodes(TreeNext) = <<25, 30, 50>>
                        /\ root' = 30 /\ nodes'[30].color = "Black"
                        /\ nodes'[30].left = 25 /\ nodes'[30].right = 50
                        /\ nodes'[25].color = "Red" /\ nodes'[50].color = "Red"
                        /\ size' = 3 ]_vars

\* The third insert of the scenario has just met the triangle 50, 25, 30.
C20_Witness ==
    /\ last.op = "exec_insert" /\ last.val = 30
    /\ Tree = InsertAll(EmptyTree, TriangleInserts)
    /\ "ins_triangle" \in StepKinds(last.steps)
    /\ "ins_line" \in StepKinds(last.steps)
    /\ root = 30 /\ nodes[30].left = 25 /\ nodes[30].right = 50

LineKinds == {"ins_line", "ins_line_mirror"}

\* What the line case at g with left child p leaves of z, p and g: p Black in
\* the place of g, z and g its Red children, the inner child of p handed to g.
LineShape(t, tn, z, p, g) ==
    /\ StandsFor(t, tn, p, g)
    /\ tn.nodes[p].color = "Black" /\ tn.nodes[z].color = "Red" /\ tn.nodes[g].color = "Red"
    /\ tn.nodes[p].left = z /\ tn.nodes[p].right = g
    /\ tn.nodes[z].parent = p /\ tn.nodes[g].parent = p
    /\ tn.nodes[g].left = t.nodes[p].right /\ tn.nodes[g].right = t.nodes[g].right
    /\ HangsUnder(tn, t.nodes[p].right, g)
    /\ tn.nodes[z].left = t.nodes[z].left /\ tn.nodes[z].right = t.nodes[z].right

\* The same with p the right child of g.
LineShapeMirror(t, tn, z, p, g) ==
    /\ StandsFor(t, tn, p, g)
    /\ tn.nodes[p].color = "Black" /\ tn.nodes[z].color = "Red" /\ tn.nodes[g].color = "Red"
    /\ tn.nodes[p].right = z /\ tn.nodes[p].left = g
    /\ tn.nodes[z].parent = p /\ tn.nodes[g].parent = p
    /\ tn.nodes[g].right = t.nodes[p].left /\ tn.nodes[g].left = t.nodes[g].left
    /\ HangsUnder(tn, t.nodes[p].left, g)
    /\ tn.nodes[z].left = t.nodes[z].left /\ tn.nodes[z].right = t.nodes[z].right

\* The iteration whose state Step is st[i], with current node z the outer
\* grandchild: the line Step of the parent's side and the resulting shape.
LineIteration(t, tn, st, i, z, p, g) ==
    IF t.nodes[g].left = p
    THEN /\ st[i + 1] = Step("ins_line", <<Position(t.nodes, p), Position(t.nodes, g)>>,
                             <<>>, <<g>>, "")
         /\ LineShape(t, tn, z, p, g)
    ELSE /\ st[i + 1] = Step("ins_line_mirror", <<Position(t.nodes, p), Position(t.nodes, g)>>,
                             <<>>, <<g>>, "")
         /\ LineShapeMirror(t, tn, z, p, g)

\* The Steps st of the stepped insert that took t to tn: a state Step with a
\* Black uncle and the current node the outer grandchild is followed by the
\* line Step and the closing Step; every line Step follows such a state Step
\* or a triangle Step, and only the closing Step follows it.
LineSteps(t, tn, st) ==
    /\ \A i \in 1..Len(st) :
          ( /\ st[i].kind = "ins_state" /\ st[i].vals[5] = 0
            /\ ~IsInnerGrandchild(t, st[i].vals[1], st[i].vals[2], st[i].vals[3]) ) =>
              /\ Len(st) = i + 2
              /\ LineIteration(t, tn, st, i, st[i].vals[1], st[i].vals[2], st[i].vals[3])
    /\ \A i \in 1..Len(st) :
          st[i].kind \in LineKinds =>
              /\ i > 1 /\ Len(st) = i + 1
              /\ st[i + 1].kind = "ins_restored"
              /\ \/ st[i - 1].kind \in TriangleKinds
                 \/ /\ st[i - 1].kind = "ins_state" /\ st[i - 1].vals[5] = 0
                    /\ ~IsInnerGrandchild(t, st[i - 1].vals[1], st[i - 1].vals[2],
                                          st[i - 1].vals[3])

LineInserts == <<50, 25, 10>>

\* Seven inserts after which the insert of 25 meets a Red uncle and then, two
\* levels up, the line; and the mirror image with the insert of 75.
RecolourThenLine == InsertAll(EmptyTree, <<80, 75, 70, 60, 50, 30, 10>>)

RecolourThenLineMirror == InsertAll(EmptyTree, <<10, 20, 25, 60, 40, 80, 50>>)

\* The stepped insert of v into t meets the Red uncle and then the line of
\* the given kind, without a triangle.
LineAbove(t, v, kind) ==
    \A r \in {InsertWithSteps(t, v)} :
        /\ r.err = ""
        /\ StepKinds(r.steps) \cap UncleRedKinds # {}
        /\ StepKinds(r.steps) \cap TriangleKinds = {}
        /\ kind \in StepKinds(r.steps)
        /\ LineSteps(t, r.tree, r.steps)
        /\ InsertPlain(t, v) = r.tree
        /\ RBInvariants(r.tree)

LineAfterRecolour ==
    /\ LineAbove(RecolourThenLine, 25, "ins_line")
    /\ LineAbove(RecolourThenLineMirror, 75, "ins_line_mirror")

\* C21: whenever insertion fixup finds the uncle Black and the current node
\* the outer grandchild, it emits a line Step, recolours the parent Black and
\* the grandparent Red and rotates at the grandparent towards the side away
\* from the parent, so that the parent takes the grandparent's place; the
\* loop ends there: only the closing Step follows a line Step (also when the
\* line is met two levels above the new node, and in the plain insert);
\* inserting 50, 25, 10 into the empty tree meets the case on the third
\* insert and not before and leaves in-order 10, 25, 50 with 25 the Black
\* root.
C21_LineEndsFixup ==
    [][ /\ LineAfterRecolour
        /\ last'.op = "exec_insert" =>
              /\ last'.ret
              /\ LineSteps(Tree, TreeNext, last'.steps)
        /\ last'.op = "insert" =>
              \A r \in {InsertWithSteps(Tree, last'.val)} :
                  StepKinds(r.steps) \cap LineKinds # {} => TreeNext = r.tree
        /\ \A i \in 1..Len(LineInserts) :
              ( /\ last'.op \in InsertOps
                /\ Tree = BuiltBefore(LineInserts, i)
                /\ last'.val = LineInserts[i] ) =>
                  /\ last'.op = "exec_insert" =>
                        /\ ("ins_line" \in StepKinds(last'.steps)) <=> (i = 3)
                        /\ StepKinds(last'.steps) \cap TriangleKinds = {}
                  /\ i = 3 =>
                        /\ CollectNodes(TreeNext) = <<10, 25, 50>>
                        /\ root' = 25 /\ nodes'[25].color = "Black"
                        /\ nodes'[25].left = 10 /\ nodes'[25].right = 50
                        /\ size' = 3
                        /\ RBInvariants(TreeNext) ]_vars

\* The third insert of the scenario has just met the line 50, 25, 10.
C21_Witness ==
    /\ last.op = "exec_insert" /\ last.val = 10
    /\ Tree = InsertAll(EmptyTree, LineInserts)
    /\ "ins_line" \in StepKinds(last.steps)
    /\ "ins_triangle" \notin StepKinds(last.steps)
    /\ root = 25 /\ nodes[25].color = "Black"

\* The number of nodes in the binary search tree.
BstNodeCount(b) == Len(BstCollectNodes(b))

\* C22: for the plain binary search tree size() is the number of nodes in
\* the tree, and an insert of a value that is already present, plain or
\* stepped, leaves size() as it was.
C22_BstSizeCountsNodes ==
    /\ [](BstSize(bst) = BstNodeCount(bst))
    /\ [][ ( /\ last'.op \in {"bst_insert", "bst_exec_insert"}
             /\ last'.val \in SeqRange(BstCollectNodes(bst)) ) =>
               BstSize(bst') = BstSize(bst) ]_vars

\* The number of events of kind ev among h[a..b].
CountEvents(h, a, b, ev) == Cardinality({k \in a..b : h[k].ev = ev})

\* The value that went in at h[i] is still held just before event j: since
\* then never more values came out than went in.
StillHeld(h, i, j) ==
    /\ h[i].ev = "in"
    /\ \A m \in (i + 1)..(j - 1) :
          CountEvents(h, i + 1, m, "out") <= CountEvents(h, i + 1, m, "in")

\* The positions of the values held just before event j.
HeldBefore(h, j) == {i \in 1..(j - 1) : StillHeld(h, i, j)}

Max(S) == CHOOSE x \in S : \A y \in S : y <= x

Min(S) == CHOOSE x \in S : \A y \in S : x <= y

\* Every value that came out is the one that went in last among those held.
LastInFirstOut(h) ==
    \A j \in 1..Len(h) :
        h[j].ev = "out" =>
            /\ HeldBefore(h, j) # {}
            /\ h[j].val = h[Max(HeldBefore(h, j))].val

StackPushOps == {"push", "exec_push"}

StackPopOps == {"pop", "exec_pop"}

\* C23: the stack is last-in-first-out and bounded: every pop, plain or
\* stepped, hands back the value pushed last among those not yet popped; the
\* number of elements never exceeds the capacity; a push on a full stack
\* returns Full and a pop on an empty stack returns EmptyStructure, each
\* leaving the contents as they were; every other push or pop succeeds.
C23_StackLifoBounded ==
    /\ [](LastInFirstOut(hist))
    /\ [](StackSize(stack) <= stack.capacity)
    /\ [](StackSize(stack) = Cardinality(HeldBefore(hist, Len(hist) + 1)))
    /\ [][ /\ last'.op \in StackPushOps =>
                 IF StackSize(stack) >= stack.capacity
                 THEN last'.err = "Full" /\ ~last'.ret /\ stack' = stack
                      /\ last'.steps = <<>>
                 ELSE last'.ret /\ stack'.data = Append(stack.data, last'.val)
           /\ last'.op \in StackPopOps =>
                 IF StackSize(stack) = 0
                 THEN last'.err = "EmptyStructure" /\ ~last'.ret /\ stack' = stack
                      /\ last'.steps = <<>>
                 ELSE last'.ret /\ StackSize(stack') = StackSize(stack) - 1
                      /\ stack.data = Append(stack'.data, last'.val) ]_vars

\* 10, 20, 30 were pushed, 30 was popped, 20 was pushed in its place, and
\* the stepped push that followed was refused by the full stack.
C23_Witness ==
    /\ Len(hist) = 5
    /\ [i \in 1..5 |-> hist[i].val] = <<10, 20, 30, 30, 20>>
    /\ [i \in 1..5 |-> hist[i].ev] = <<"in", "in", "in", "out", "in">>
    /\ stack.data = <<10, 20, 20>>
    /\ StackSize(stack) = stack.capacity
    /\ last.op = "exec_push" /\ last.err = "Full"

\* The values of the events of kind ev in h, in the order they happened.
EventValues(h, ev) ==
    [i \in 1..Len(SelectSeq(h, LAMBDA e : e.ev = ev)) |->
        SelectSeq(h, LAMBDA e : e.ev = ev)[i].val]

\* The values that came out are the first ones that went in, in that order.
FirstInFirstOut(h) ==
    /\ Len(EventValues(h, "out")) <= Len(EventValues(h, "in"))
    /\ EventValues(h, "out") = SubSeq(EventValues(h, "in"), 1, Len(EventValues(h, "out")))

QueueInOps == {"enqueue", "exec_enqueue"}

QueueOutOps == {"dequeue", "exec_dequeue"}

\* C24: the queue is first-in-first-out and bounded: the values dequeued,
\* plain or stepped, are the values enqueued, in the order they were
\* enqueued; the queue holds those enqueued and not yet dequeued; the number
\* of elements never exceeds the capacity; an enqueue on a full queue returns
\* Full and a dequeue on an empty queue returns EmptyStructure, each leaving
\* the contents as they were; every other enqueue or dequeue succeeds.
C24_QueueFifoBounded ==
    /\ [](FirstInFirstOut(hist))
    /\ [](QueueSize(queue) <= queue.capacity)
    /\ [](EventValues(hist, "in") = EventValues(hist, "out") \o queue.data)
    /\ [][ /\ last'.op \in QueueInOps =>
                 IF QueueSize(queue) >= queue.capacity
                 THEN last'.err = "Full" /\ ~last'.ret /\ queue' = queue
                      /\ last'.steps = <<>>
                 ELSE last'.ret /\ QueueSize(queue') = QueueSize(queue) + 1
           /\ last'.op \in QueueOutOps =>
                 IF QueueSize(queue) = 0
                 THEN last'.err = "EmptyStructure" /\ ~last'.ret /\ queue' = queue
                      /\ last'.steps = <<>>
                 ELSE last'.ret /\ QueueSize(queue') = QueueSize(queue) - 1 ]_vars

\* 10, 20, 30 were enqueued, 10 was dequeued, 20 was enqueued again, and the
\* stepped enqueue that followed was refused by the full queue.
C24_Witness ==
    /\ Len(hist) = 5
    /\ [i \in 1..5 |-> hist[i].val] = <<10, 20, 30, 10, 20>>
    /\ [i \in 1..5 |-> hist[i].ev] = <<"in", "in", "in", "out", "in">>
    /\ queue.data = <<20, 30, 20>>
    /\ QueueSize(queue) = queue.capacity
    /\ last.op = "exec_enqueue" /\ last.err = "Full"

NonDecreasing(a) == \A i \in 1..(Len(a) - 1) : a[i] <= a[i + 1]

\* How often value v occurs in a.
Occurrences(a, v) == Cardinality({i \in 1..Len(a) : a[i] = v})

IsPermutation(a, b) ==
    /\ Len(a) = Len(b)
    /\ \A v \in SeqRange(a) \cup SeqRange(b) : Occurrences(a, v) = Occurrences(b, v)

\* Every index the Steps st name lies inside a slice of length n.
StepIndicesInside(st, n) ==
    \A k \in 1..Len(st) :
        \A i \in SeqRange(st[k].highlight) \cup SeqRange(st[k].active) : i >= 0 /\ i < n

\* A sort of n elements that ends makes at most n - 1 partitions, each of
\* at most n - 1 comparisons and as many swaps, with three Steps of its own.
StepLimit(n) == 2 + (n - 1) * (2 * (n - 1) + 3)

\* The sort of array a came to an end inside the slice with the array r.arr
\* sorted and a permutation of a.
SortedWell(a, r) ==
    /\ r.err = ""
    /\ NonDecreasing(r.arr)
    /\ IsPermutation(a, r.arr)
    /\ StepIndicesInside(r.steps, Len(a))
    /\ Len(r.steps) <= StepLimit(Len(a))
    /\ Len(a) <= 1 => r.steps = <<>>
    /\ Len(a) > 1 => r.steps[1].vals = a /\ r.steps[Len(r.steps)].vals = r.arr

\* The arrays of test_quick_sort_correctness and test_quick_sort_with_duplicates.
QuickSortTests ==
    /\ SortedWell(<<5, 2, 8, 1, 9, 3, 7>>, QuickSortWithSteps(<<5, 2, 8, 1, 9, 3, 7>>))
    /\ QuickSortWithSteps(<<5, 2, 8, 1, 9, 3, 7>>).arr = <<1, 2, 3, 5, 7, 8, 9>>
    /\ SortedWell(<<5, 2, 5, 1, 2>>, QuickSortWithSteps(<<5, 2, 5, 1, 2>>))
    /\ QuickSortWithSteps(<<5, 2, 5, 1, 2>>).arr = <<1, 2, 2, 5, 5>>

\* C25: quick_sort_with_steps comes to an end for every array (within a
\* number of Steps fixed by the length), panics on no index, names only
\* indices inside the array in its Steps, and leaves the array in
\* non-decreasing order and a permutation of what it was; so for arrays with
\* duplicates, for sorted arrays and for the arrays of the two tests.
C25_QuickSortSorts ==
    [][ /\ QuickSortTests
        /\ last'.op = "quick_sort" =>
              /\ last'.ret
              /\ SortedWell(arr, [arr |-> arr', steps |-> last'.steps, err |-> last'.err]) ]_vars

\* An unsorted array with duplicates has just been sorted.
C25_Witness ==
    /\ last.op = "quick_sort" /\ last.ret
    /\ last.steps # <<>>
    /\ last.steps[1].vals = <<3, 1, 3, 2, 1>>
    /\ arr = <<1, 1, 2, 3, 3>>

\* The colour and the value of every node of t are the ones it has in tn,
\* and no node came or went.
SameNodes(t, tn) ==
    \A h \in Handles :
        IF t.nodes[h] = NoNode THEN tn.nodes[h] = NoNode
        ELSE /\ tn.nodes[h] # NoNode
             /\ tn.nodes[h].color = t.nodes[h].color
             /\ tn.nodes[h].value = t.nodes[h].value

\* The parent fields of t mirror its child links: the root has no parent,
\* every child names its parent, and every other node hangs under the node
\* its parent field names.
LinksMirror(t) ==
    /\ t.root # NIL => t.nodes[t.root].parent = NIL
    /\ \A k \in Subtree(t.nodes, t.root) :
        /\ t.nodes[k].left # NIL => t.nodes[t.nodes[k].left].parent = k
        /\ t.nodes[k].right # NIL => t.nodes[t.nodes[k].right].parent = k
    /\ \A h \in Handles : t.nodes[h] # NoNode => h \in Subtree(t.nodes, t.root)

\* In tn node y stands in the slot that x filled in t: the root reference
\* when x was the root, else the same child link of x's parent, whose other
\* link and the root reference are as they were.
TookPlace(t, tn, x, y) ==
    IF t.nodes[x].parent = NIL THEN tn.root = y /\ tn.nodes[y].parent = NIL
    ELSE /\ tn.root = t.root
         /\ tn.nodes[y].parent = t.nodes[x].parent
         /\ t.nodes[t.nodes[x].parent].left = x =>
               /\ tn.nodes[t.nodes[x].parent].left = y
               /\ tn.nodes[t.nodes[x].parent].right = t.nodes[t.nodes[x].parent].right
         /\ t.nodes[t.nodes[x].parent].left # x =>
               /\ tn.nodes[t.nodes[x].parent].right = y
               /\ tn.nodes[t.nodes[x].parent].left = t.nodes[t.nodes[x].parent].left

\* What a rotation at x with the child y promoted leaves alike on both sides.
Rotated(t, tn, x, y) ==
    /\ CollectNodes(tn) = CollectNodes(t)
    /\ tn.size = t.size
    /\ SameNodes(t, tn)
    /\ TookPlace(t, tn, x, y)
    /\ tn.nodes[x].parent = y
    /\ LinksMirror(tn)

\* tn is t after rotate_left(x).
RotatedLeft(t, tn, x) ==
    IF t.nodes[x].right = NIL THEN tn = t
    ELSE /\ Rotated(t, tn, x, t.nodes[x].right)
         /\ tn.nodes[t.nodes[x].right].left = x
         /\ tn.nodes[t.nodes[x].right].right = t.nodes[t.nodes[x].right].right
         /\ tn.nodes[x].right = t.nodes[t.nodes[x].right].left
         /\ tn.nodes[x].left = t.nodes[x].left

\* tn is t after rotate_right(x).
RotatedRight(t, tn, x) ==
    IF t.nodes[x].left = NIL THEN tn = t
    ELSE /\ Rotated(t, tn, x, t.nodes[x].left)
         /\ tn.nodes[t.nodes[x].left].right = x
         /\ tn.nodes[t.nodes[x].left].left = t.nodes[t.nodes[x].left].left
         /\ tn.nodes[x].left = t.nodes[t.nodes[x].left].right
         /\ tn.nodes[x].right = t.nodes[x].right

\* C26: rotate_left(x) and rotate_right(x) on any node x of a tree keep the
\* in-order sequence of values and the colour of every node, put x's right
\* (for rotate_right: left) child y in x's place with x under it, hang y's
\* inner subtree under x, leave the parent fields mirroring the child links,
\* make y the root when x was the root, and change nothing when x has no
\* such child.
C26_RotationsKeepOrder ==
    [][ /\ last'.op = "rotate_left" => RotatedLeft(Tree, TreeNext, last'.val)
        /\ last'.op = "rotate_right" => RotatedRight(Tree, TreeNext, last'.val) ]_vars

\* A left rotation at an inner node that is not the root has just moved a
\* non-empty inner subtree under it.
C26_Witness ==
    /\ last.op = "rotate_left"
    /\ nodes[last.val].parent # NIL
    /\ nodes[nodes[last.val].parent].parent # NIL
    /\ nodes[nodes[last.val].parent].left = last.val
    /\ nodes[last.val].right # NIL
    /\ nodes[last.val].left # NIL

\* The node p of t with the child link that held u now holding v.
Relinked(t, p, u, v) ==
    IF t.nodes[p].left = u THEN [t.nodes[p] EXCEPT !.left = v]
    ELSE [t.nodes[p] EXCEPT !.right = v]

\* tn is t after transplant(u, v), p being u's parent in t: the slot that
\* held u holds v, v names p as its parent, and all else is as in t.
Transplanted(t, tn, u, v, p) ==
    /\ tn.size = t.size
    /\ tn.root = (IF p = NIL THEN v ELSE t.root)
    /\ p # NIL => tn.nodes[p] = Relinked(t, p, u, v)
    /\ v # NIL => tn.nodes[v] = [t.nodes[v] EXCEPT !.parent = p]
    /\ \A h \in Handles \ {p, v} : tn.nodes[h] = t.nodes[h]
    /\ tn.nodes[u] = t.nodes[u]

\* C27: transplant(u, v) changes only the slot that held u (the child link
\* of u's parent that held it, or the root reference when u has no parent)
\* and, when v exists, v's parent field; u's children, v's children, all
\* colours and every other link stay as they were.
C27_TransplantFrame ==
    [][ last'.op = "transplant" =>
          Transplanted(Tree, TreeNext, last'.val, hist'[Len(hist')].val,
                       nodes[last'.val].parent) ]_vars

\* The minimum of the right subtree of a node with two children and a parent
\* has just been put in that node's place, from deeper down than its child.
C27_Witness ==
    /\ last.op = "transplant"
    /\ hist[Len(hist)].val # NIL
    /\ nodes[last.val].parent # NIL
    /\ nodes[hist[Len(hist)].val].parent = nodes[last.val].parent
    /\ nodes[nodes[last.val].parent].left = hist[Len(hist)].val
    /\ nodes[last.val].left # NIL
    /\ nodes[last.val].right # NIL
    /\ nodes[last.val].right # hist[Len(hist)].val
    /\ nodes[last.val].left # hist[Len(hist)].val

\* The node a delete of z splices out: z itself, or the minimum of its right
\* subtree when z has two children.
SplicedOut(t, z) ==
    IF t.nodes[z].left # NIL /\ t.nodes[z].right # NIL
    THEN TreeMinimum(t.nodes, t.nodes[z].right)
    ELSE z

\* The Step kinds of the deletion fixup: its announcement, its cases and its
\* closing Step.
DeleteFixupKinds ==
    {"del_fixup_needed", "del_fixup_complete",
     "del_sibling_red", "del_sibling_red_mirror",
     "del_both_children_black", "del_both_children_black_mirror",
     "del_triangle", "del_triangle_mirror", "del_line", "del_line_mirror"}

\* From t to tn node z went and y, the node spliced out, was Red; no fixup
\* ran: the tree is what the splice alone leaves (no link was turned by a
\* rotation), and every node left has its colour, but for y in z's place
\* with z's colour.
NoFixupRan(t, tn, z, y) ==
    /\ tn = DropNode(DecSize(DeleteSplice(t, z).tree), z)
    /\ \A h \in Handles \ {z} :
          t.nodes[h] # NoNode =>
             /\ tn.nodes[h] # NoNode
             /\ tn.nodes[h].color = (IF h = y THEN t.nodes[z].color ELSE t.nodes[h].color)
    /\ RBInvariants(tn)

\* The trace says that no fixup is needed and shows none.
TraceWithoutFixup(steps) ==
    /\ "del_no_fixup" \in StepKinds(steps)
    /\ StepKinds(steps) \cap DeleteFixupKinds = {}
    /\ \E i \in 1..Len(steps) : steps[i].kind = "del_no_fixup" /\ steps[i].color = "red"

\* The trace announces the fixup and shows it through to its closing Step.
TraceWithFixup(steps) ==
    /\ "del_no_fixup" \notin StepKinds(steps)
    /\ \E i \in 1..Len(steps) : \E j \in (i + 1)..Len(steps) :
          /\ steps[i].kind = "del_fixup_needed" /\ steps[i].color = "black"
          /\ steps[j].kind = "del_fixup_complete"

\* The delete of the node z of t, stepped (with the Steps st) or plain, that
\* left tn: the fixup ran exactly when the node spliced out was Black.  A
\* plain delete keeps no trace; it leaves the tree its stepped twin r leaves.
FixupOnlyForBlack(t, tn, z, stepped, st, r) ==
    IF t.nodes[SplicedOut(t, z)].color = "Red"
    THEN /\ NoFixupRan(t, tn, z, SplicedOut(t, z))
         /\ stepped => TraceWithoutFixup(st)
    ELSE /\ stepped => TraceWithFixup(st)
         /\ tn = r.tree /\ TraceWithFixup(r.steps)

\* C28: when the node a deletion splices out (the target, or its in-order
\* successor when the target has two children) was Red, no fixup runs: no
\* rotation is made, no node changes colour but the successor that takes
\* the target's colour, the trace says no fixup is needed, and the
\* red-black invariants hold afterwards; when it was Black the fixup runs.
C28_FixupOnlyForBlack ==
    [][ (last'.op \in DeleteOps /\ FindNode(nodes, root, last'.val) # NIL) =>
           \A r \in {DeleteWithSteps(Tree, last'.val)} :
              FixupOnlyForBlack(Tree, TreeNext, FindNode(nodes, root, last'.val),
                                last'.op = "exec_delete", last'.steps, r) ]_vars

\* A stepped delete has just replaced a node with two children by a Red
\* successor from deeper down, and the trace says no fixup was needed.
C28_Witness ==
    /\ last.op = "exec_delete"
    /\ "del_no_fixup" \in StepKinds(last.steps)
    /\ "del_replaced" \in StepKinds(last.steps)
    /\ \E i \in 1..Len(last.steps) :
          /\ last.steps[i].kind = "del_two_children"
          /\ last.steps[i].highlight[1] # 2 * last.steps[i].active[1] + 2
    /\ size >= 4

\* The Step kinds of the mirrored fixup cases (x is a right child).
DeleteMirrorKinds ==
    {"del_sibling_red_mirror", "del_both_children_black_mirror",
     "del_triangle_mirror", "del_line_mirror"}

\* The Steps of a delete trace between the announcement of the fixup and
\* its closing Step.
FixupCaseSteps(st) ==
    SelectSeq(st, LAMBDA e : e.kind \in DeleteFixupKinds
                                \ {"del_fixup_needed", "del_fixup_complete"})

\* The loop iteration a case Step names.
CaseIteration(e) == e.vals[Len(e.vals)]

\* The case Step i of cs names the iteration `it`.
IterationIs(cs, i, it) == CaseIteration(cs[i]) = it

\* What a trace read back as tree changes comes to: ok says that every
\* Step fitted the tree it met.
Replayed(t, x) == [ok |-> TRUE, tree |-> t, x |-> x]

NotReplayed == [ok |-> FALSE, tree |-> EmptyTree, x |-> NIL]

\* The case Steps cs from Step i on, read as the only changes made to the
\* tree t: each Step must name the case that the tree shows at x (with
\* parent xp) when the Step is met, highlight the sibling where it then is,
\* and carry the iteration `it`; the change of its case is applied after it.
RECURSIVE ReplayFixup(_, _, _, _, _, _)

\* The line Step is the last one; it leaves x at the root.
ReplayLine(t, xp, cs, i, left, w) ==
    IF i # Len(cs) \/ cs[i].highlight # <<>> \/ w = NIL
       \/ IsBlack(t.nodes, FarChild(t, w, left))
    THEN NotReplayed
    ELSE Replayed(DeleteLine(t, xp, w, left), DeleteLine(t, xp, w, left).root)

\* The triangle Step is followed by the line Step of the same iteration.
ReplayTriangle(t, xp, cs, i, left, w, it) ==
    IF \/ i = Len(cs)
       \/ cs[i].highlight # <<FindNodeIndex(t, w)>>
       \/ BothNephewsBlack(t, w)
       \/ ~IsBlack(t.nodes, FarChild(t, w, left))
    THEN NotReplayed
    ELSE IF cs[i + 1].kind # (IF left THEN "del_line" ELSE "del_line_mirror")
            \/ ~IterationIs(cs, i + 1, it)
    THEN NotReplayed
    ELSE ReplayLine(DeleteTriangle(t, w, left), xp, cs, i + 1, left,
                    Sibling(DeleteTriangle(t, w, left), xp, left))

\* The both-Black Step moves x up to its parent for the next iteration.
ReplayBothBlack(t, xp, cs, i, w, it) ==
    IF cs[i].highlight # <<FindNodeIndex(t, w)>> \/ ~BothNephewsBlack(t, w)
    THEN NotReplayed
    ELSE ReplayFixup(SetColor(t, w, "Red"), xp, t.nodes[xp].parent, cs, i + 1, it + 1)

\* The sibling-Red Step; the cases after it belong to the same iteration.
ReplaySiblingRed(t, x, xp, cs, i, w, it) ==
    IF \/ ~IsRed(t.nodes, w)
       \/ cs[i].highlight # <<FindNodeIndex(t, w)>>
       \/ cs[i].vals[1] # t.nodes[w].value
    THEN NotReplayed
    ELSE ReplayFixup(DeleteSiblingRed(t, xp, w, XIsLeft(t.nodes, x, xp)), x, xp, cs, i + 1, it)

\* The Step i for x on the side `left` of its parent with the sibling w.
ReplayCase(t, x, xp, cs, i, left, w, it) ==
    IF w = NIL \/ ~IterationIs(cs, i, it) \/ (cs[i].kind \in DeleteMirrorKinds) = left
    THEN NotReplayed
    ELSE IF cs[i].kind \in {"del_sibling_red", "del_sibling_red_mirror"}
    THEN ReplaySiblingRed(t, x, xp, cs, i, w, it)
    ELSE IF cs[i].kind \in {"del_both_children_black", "del_both_children_black_mirror"}
    THEN ReplayBothBlack(t, xp, cs, i, w, it)
    ELSE IF cs[i].kind \in {"del_triangle", "del_triangle_mirror"}
    THEN ReplayTriangle(t, xp, cs, i, left, w, it)
    ELSE ReplayLine(t, xp, cs, i, left, w)

ReplayFixup(t, x, xp, cs, i, it) ==
    IF i > Len(cs) THEN Replayed(t, x)
    ELSE IF xp = NIL THEN NotReplayed
    ELSE ReplayCase(t, x, xp, cs, i, XIsLeft(t.nodes, x, xp),
                    Sibling(t, xp, XIsLeft(t.nodes, x, xp)), it)

\* The stepped delete of the node z of t with the Steps st left tn: the
\* case Steps of st, replayed on the tree as the splice s left it, account
\* for every change up to tn.
CasesAccountForFixup(t, tn, z, st, s) ==
    \A r \in {ReplayFixup(s.tree, s.x, s.xp, FixupCaseSteps(st), 1, 1)} :
       /\ r.ok
       /\ tn = DropNode(DecSize(SetColorOpt(r.tree, r.x, "Black")), z)

\* C29: in every stepped deletion each fixup branch taken (sibling Red, both
\* nephews Black, triangle, line, and their mirrors) puts a Step naming its
\* case into the trace before its recolouring or rotation is applied: the
\* Step shows the sibling where it is before the change, and the changes of
\* the Steps, each applied after its Step, are all that happens to the
\* tree; so every rotation of a delete comes after a case Step of its own
\* loop iteration.
C29_CaseStepBeforeChange ==
    [][ (last'.op = "exec_delete" /\ "del_fixup_needed" \in StepKinds(last'.steps)) =>
           CasesAccountForFixup(Tree, TreeNext, FindNode(nodes, root, last'.val), last'.steps,
                                DeleteSplice(Tree, FindNode(nodes, root, last'.val))) ]_vars

\* A stepped delete has just run the sibling-Red case and, in the same
\* iteration, a further case that rotates.
C29_Witness ==
    /\ last.op = "exec_delete"
    /\ \E i \in 1..(Len(last.steps) - 1) :
          /\ last.steps[i].kind \in {"del_sibling_red", "del_sibling_red_mirror"}
          /\ last.steps[i + 1].kind \in {"del_triangle", "del_triangle_mirror",
                                         "del_line", "del_line_mirror"}
          /\ CaseIteration(last.steps[i + 1]) = CaseIteration(last.steps[i])

\* The Steps of st that name a fixup case of an insertion.
InsertCaseSteps(st) == SelectSeq(st, LAMBDA e : e.kind \in UncleRedKinds \cup RotationKinds)

\* The tree when the fixup loop of the insert of the new value v into t
\* ends, before the root is looked at.
AfterInsertLoop(t, v) ==
    InsertFixupLoop(IncSize(Attach(t, BstDescend(t.nodes, t.root, NIL, v), v)), v)

\* The root-recolour Step is in st, once, after the Step that ends the loop
\* and right before the closing Step.
RootRecolourLast(st) ==
    /\ Len(st) >= 3
    /\ st[Len(st) - 1].kind = "ins_root_recolor" /\ st[Len(st) - 1].highlight = <<0>>
    /\ st[Len(st) - 2].kind = "ins_fixup_end"
    /\ \A i \in 1..(Len(st) - 2) : st[i].kind # "ins_root_recolor"

\* The last case Step of cs is the uncle-Red recolour, and its grandparent
\* (the second index it highlights) is the root.
LastCaseRecolouredRoot(cs) ==
    /\ cs # <<>>
    /\ cs[Len(cs)].kind \in UncleRedKinds
    /\ cs[Len(cs)].highlight[2] = 0

\* The stepped insert with the Steps st, whose loop ended with the tree tl.
RootRecolourWhenRed(tl, st) ==
    /\ IsRed(tl.nodes, tl.root) <=> "ins_root_recolor" \in StepKinds(st)
    /\ IsRed(tl.nodes, tl.root) =>
          /\ RootRecolourLast(st)
          /\ LastCaseRecolouredRoot(InsertCaseSteps(st))
    /\ StepKinds(st) \cap RotationKinds # {} => ~IsRed(tl.nodes, tl.root)
    /\ (InsertCaseSteps(st) # <<>> /\ ~LastCaseRecolouredRoot(InsertCaseSteps(st))) =>
          ~IsRed(tl.nodes, tl.root)

\* The insert of 80 into the ascending tree recolours twice, the second
\* time with the root as grandparent, and then forces the root Black.
RootRecolourAfterTwo ==
    /\ Len(InsertCaseSteps(AscendingInsert.steps)) = 2
    /\ IsRed(AfterInsertLoop(AscendingTree, 80).nodes, AfterInsertLoop(AscendingTree, 80).root)
    /\ RootRecolourWhenRed(AfterInsertLoop(AscendingTree, 80), AscendingInsert.steps)

\* C30: in a stepped insertion the forced root-recolour Step is emitted
\* exactly when the root is Red after the fixup loop; that is so only when
\* the last case executed was the uncle-Red recolour with the root as
\* grandparent (also at the end of a chain of two recolourings), and never
\* after a triangle or line case.
C30_RootRecolourStep ==
    [][ /\ RootRecolourAfterTwo
        /\ (last'.op = "exec_insert" /\ "ins_inserted" \in StepKinds(last'.steps)) =>
              RootRecolourWhenRed(AfterInsertLoop(Tree, last'.val), last'.steps) ]_vars

\* A stepped insert under a Red parent with a Red uncle has just recoloured
\* the root Red and forced it back to Black.
C30_Witness ==
    /\ last.op = "exec_insert"
    /\ Len(last.steps) >= 4
    /\ last.steps[Len(last.steps) - 1].kind = "ins_root_recolor"
    /\ last.steps[Len(last.steps) - 3].kind \in UncleRedKinds
    /\ last.steps[Len(last.steps) - 3].highlight[2] = 0
    /\ nodes[root].color = "Black"
    /\ size >= 4

\* The four operations the red-black tree answers through execute_with_steps.
SteppedOps == {"exec_insert", "exec_delete", "exec_search", "exec_traverse"}

\* The iterations of the insertion fixup that a trace shows to have gone
\* round the loop: the ones that recoloured under a Red uncle.
LoopRounds(steps) == Len(SelectSeq(steps, LAMBDA e : e.kind \in UncleRedKinds))

\* C31: a stepped insertion returns InvalidState only once its fixup loop has
\* gone round more than 100 times; on every reachable tree (and for the
\* insert that recolours twice after nine ascending inserts) every Insert,
\* Delete, Search and Traverse issued through execute_with_steps returns
\* Ok, never InvalidState, after no more than 100 rounds.
C31_NoInvalidState ==
    /\ AscendingInsert.err = "" /\ LoopRounds(AscendingInsert.steps) = 2
    /\ last.op \in SteppedOps =>
          /\ last.ret /\ last.err = ""
          /\ LoopRounds(last.steps) <= MaxIterations

\* A stepped insert has gone once round the fixup loop, recolouring under a
\* Red uncle, and returned Ok with its trace.
C31_Witness ==
    /\ last.op = "exec_insert"
    /\ last.ret /\ last.err = ""
    /\ LoopRounds(last.steps) = 1
    /\ "ins_restored" \in StepKinds(last.steps)
    /\ size >= 5

\* The level of the array index i: 0 for the root's index 0.
RECURSIVE IndexDepth(_)
IndexDepth(i) == IF i = 0 THEN 0 ELSE 1 + IndexDepth((i - 1) \div 2)

\* The height of the subtree at `node` in links; -1 when there is none.
RECURSIVE TreeHeight(_, _)
TreeHeight(n, node) ==
    IF node = NIL THEN -1
    ELSE 1 + Max({TreeHeight(n, n[node].left), TreeHeight(n, n[node].right)})

\* The state Steps of a trace: one per iteration that found a Red parent
\* with a grandparent.
StateSteps(st) == SelectSeq(st, LAMBDA e : e.kind = "ins_state")

\* The rotations a trace shows: one per triangle Step and one per line Step.
InsertRotations(st) == Len(SelectSeq(st, LAMBDA e : e.kind \in RotationKinds))

\* The iterations of the loop: the ones with a state Step and, unless the
\* last of them left the loop through the line case, the one that ended it.
InsertIterations(st) ==
    Len(StateSteps(st)) + (IF StepKinds(st) \cap LineKinds = {} THEN 1 ELSE 0)

\* Every iteration but the last met a Red uncle, and the next one looks at
\* its grandparent, two levels up.
ClimbsByTwo(ss) ==
    \A k \in 1..(Len(ss) - 1) :
        /\ ss[k].vals[5] = 1
        /\ ss[k + 1].highlight[1] = ss[k].highlight[3]
        /\ IndexDepth(ss[k + 1].highlight[1]) = IndexDepth(ss[k].highlight[1]) - 2

\* A triangle Step is followed by the line Step, a line Step only by the
\* closing Step, and an iteration that met a Black uncle is the last one.
RotationEndsLoop(st) ==
    /\ \A i \in 1..Len(st) :
          /\ st[i].kind \in TriangleKinds => i < Len(st) /\ st[i + 1].kind \in LineKinds
          /\ st[i].kind \in LineKinds => i = Len(st) - 1 /\ st[i + 1].kind = "ins_restored"
    /\ \A k \in 1..Len(StateSteps(st)) :
          StateSteps(st)[k].vals[5] = 0 =>
             /\ k = Len(StateSteps(st))
             /\ StepKinds(st) \cap LineKinds # {}

\* The trace st of an insert that hung its new leaf into a tree then of
\* height h, at array index leaf.
FixupBounded(st, h, leaf) ==
    /\ ClimbsByTwo(StateSteps(st))
    /\ RotationEndsLoop(st)
    /\ InsertRotations(st) <= 2
    /\ InsertIterations(st) <= IndexDepth(leaf) \div 2 + 1
    /\ IndexDepth(leaf) <= h
    /\ InsertIterations(st) <= h \div 2 + 1

\* The stepped insert r of the new value v into the tree t is bounded so.
InsertTerminates(t, v, r) ==
    /\ r.err = ""
    /\ \E i \in 1..Len(r.steps) :
          /\ r.steps[i].kind = "ins_inserted"
          /\ FixupBounded(r.steps,
                          TreeHeight(Attach(t, BstDescend(t.nodes, t.root, NIL, v), v).nodes,
                                     t.root),
                          r.steps[i].active[1])

\* An insert into the tree t that goes twice round the loop.
TwoRounds(t, v) ==
    \A r \in {InsertWithSteps(t, v)} :
        /\ InsertTerminates(t, v, r)
        /\ Len(StateSteps(r.steps)) = 2

\* The inserts of ten values that recolour twice, and that recolour and then
\* rotate two levels up, once or twice.
TwoRoundInserts ==
    /\ TwoRounds(AscendingTree, 80)
    /\ TwoRounds(RecolourThenTriangle, 25) /\ TwoRounds(RecolourThenTriangleMirror, 60)
    /\ TwoRounds(RecolourThenLine, 25) /\ TwoRounds(RecolourThenLineMirror, 75)
    /\ InsertRotations(InsertWithSteps(RecolourThenTriangle, 25).steps) = 2
    /\ InsertIterations(InsertWithSteps(AscendingTree, 80).steps) = 3

\* C32: the insertion fixup comes to an end: each iteration under a Red
\* uncle goes on two levels closer to the root, an iteration that rotates
\* is the last one, so that one insert, plain or stepped, makes at most two
\* rotations and at most (height / 2 + 1) iterations of the loop.
C32_InsertFixupTerminates ==
    [][ /\ TwoRoundInserts
        /\ (last'.op \in InsertOps /\ root # NIL /\ ~Search(Tree, last'.val)) =>
              \A r \in {InsertWithSteps(Tree, last'.val)} :
                  /\ TreeNext = r.tree
                  /\ InsertTerminates(Tree, last'.val, r) ]_vars

\* A stepped insert four levels down has just recoloured under a Red uncle
\* and ended the loop in the next iteration.
C32_Witness ==
    /\ last.op = "exec_insert"
    /\ Len(StateSteps(last.steps)) = 1
    /\ StateSteps(last.steps)[1].vals[5] = 1
    /\ IndexDepth(StateSteps(last.steps)[1].highlight[1]) = 3
    /\ InsertIterations(last.steps) = 2
    /\ "ins_fixup_end" \in StepKinds(last.steps)

DeleteRotationKinds ==
    {"del_sibling_red", "del_sibling_red_mirror", "del_triangle", "del_triangle_mirror",
     "del_line", "del_line_mirror"}

BothBlackKinds == {"del_both_children_black", "del_both_children_black_mirror"}

\* The rotations a delete trace shows: one per sibling-Red, triangle and
\* line Step.
DeleteRotations(cs) == Len(SelectSeq(cs, LAMBDA e : e.kind \in DeleteRotationKinds))

\* After a both-nephews-Black Step the next iteration starts, one level
\* closer to the root (as the index of the sibling it highlights shows).
BothBlackClimbs(cs) ==
    \A i \in 1..(Len(cs) - 1) :
        cs[i].kind \in BothBlackKinds =>
           /\ CaseIteration(cs[i + 1]) = CaseIteration(cs[i]) + 1
           /\ cs[i + 1].highlight # <<>> =>
                 IndexDepth(cs[i + 1].highlight[1]) = IndexDepth(cs[i].highlight[1]) - 1

\* The line Step is the last case Step.
LineEndsLoop(cs) ==
    \A i \in 1..Len(cs) : cs[i].kind \in {"del_line", "del_line_mirror"} => i = Len(cs)

\* The case Steps cs of the delete that took the tree of height h to tn,
\* the fixup starting from the splice s.
DeleteFixupBounded(tn, cs, s, h) ==
    /\ BothBlackClimbs(cs)
    /\ LineEndsLoop(cs)
    /\ DeleteRotations(cs) <= 3
    /\ cs # <<>> => CaseIteration(cs[Len(cs)]) <= h
    /\ \A q \in {ReplayFixup(s.tree, s.x, s.xp, cs, 1, 1)} :
          /\ q.ok
          /\ q.x # NIL => tn.nodes[q.x].color = "Black"

\* The stepped delete r of the value v present in the tree t is bounded so
\* when its fixup runs.
DeleteTerminates(t, v, r) ==
    /\ r.err = ""
    /\ "del_fixup_needed" \in StepKinds(r.steps) =>
          DeleteFixupBounded(r.tree, FixupCaseSteps(r.steps),
                             DeleteSplice(t, FindNode(t.nodes, t.root, v)),
                             TreeHeight(t.nodes, t.root))

\* Ten inserts and a delete leave a tree from which the delete of 20 finds
\* both nephews Black in two iterations running, the second time with x a
\* left child; and one more from which the delete of 70 does so with x a
\* right child.
TwoClimbsTree ==
    DeletePlain(InsertAll(EmptyTree, <<50, 20, 10, 30, 25, 70, 40, 60, 80, 75>>), 30).tree

TwoClimbsTreeMirror ==
    DeletePlain(InsertAll(EmptyTree, <<50, 20, 10, 30, 25, 80, 75, 70, 60, 40>>), 20).tree

TwoClimbs(t, v, kind) ==
    \A r \in {DeleteWithSteps(t, v)} :
        /\ DeleteTerminates(t, v, r)
        /\ DeletePlain(t, v).tree = r.tree
        /\ Len(SelectSeq(r.steps, LAMBDA e : e.kind \in BothBlackKinds)) = 2
        /\ r.steps[Len(r.steps) - 2].kind = kind

TwoClimbDeletes ==
    /\ TwoClimbs(TwoClimbsTree, 20, "del_both_children_black")
    /\ TwoClimbs(TwoClimbsTreeMirror, 70, "del_both_children_black_mirror")

\* C33: the deletion fixup comes to an end: after an iteration that found
\* both nephews Black x stands one level closer to the root, an iteration
\* that reaches the line case is the last one, so that one delete, plain or
\* stepped, makes at most three rotations; and the node x denotes after the
\* loop, if any, is Black.
C33_DeleteFixupTerminates ==
    [][ /\ TwoClimbDeletes
        /\ (last'.op \in DeleteOps /\ Search(Tree, last'.val)) =>
              \A r \in {DeleteWithSteps(Tree, last'.val)} :
                  /\ TreeNext = r.tree
                  /\ DeleteTerminates(Tree, last'.val, r) ]_vars

\* A stepped delete has just made three rotations in one iteration of its
\* fixup: sibling Red, triangle and line.
C33_Witness ==
    /\ last.op = "exec_delete"
    /\ DeleteRotations(FixupCaseSteps(last.steps)) = 3
    /\ LineEndsLoop(FixupCaseSteps(last.steps))
    /\ CaseIteration(FixupCaseSteps(last.steps)[3]) = 1
    /\ nodes[root].color = "Black"

\* Plain and stepped insert of v end in the same tree from t: the same
\* root, size and node records (value, colour, links).
InsertsAgree(t, v) ==
    \A r \in {InsertWithSteps(t, v)} : \A q \in {InsertPlain(t, v)} :
        /\ r.err = ""
        /\ q.root = r.tree.root
        /\ q.size = r.tree.size
        /\ q.nodes = r.tree.nodes
        /\ CollectNodes(q) = CollectNodes(r.tree)

\* The trees of ten values whose last insert goes twice round the fixup loop.
DeepInsertsAgree ==
    /\ InsertsAgree(AscendingTree, 80)
    /\ InsertsAgree(RecolourThenTriangle, 25) /\ InsertsAgree(RecolourThenTriangleMirror, 60)
    /\ InsertsAgree(RecolourThenLine, 25) /\ InsertsAgree(RecolourThenLineMirror, 75)

\* C34: from every reachable tree and for every value v, the plain
\* insert(v) and the stepped Operation::Insert(_, v) end in identical trees:
\* same shape, values, colours and size; the call that was made left that
\* tree.
C34_InsertsAgree ==
    [][ /\ DeepInsertsAgree
        /\ last'.op \in InsertOps =>
              /\ InsertsAgree(Tree, last'.val)
              /\ TreeNext = InsertWithSteps(Tree, last'.val).tree ]_vars

\* A plain insert has just ended with the new node Black above two children,
\* where the triangle case of the fixup put it.
C34_Witness ==
    /\ last.op = "insert"
    /\ size >= 5
    /\ nodes[last.val].color = "Black"
    /\ nodes[last.val].left # NIL /\ nodes[last.val].right # NIL
    /\ nodes[last.val].parent # NIL

\* The trace reports the value as found (and does not report it missing).
ReportsFound(st) ==
    /\ "del_found" \in StepKinds(st)
    /\ "del_not_found" \notin StepKinds(st)

\* Plain and stepped delete of v end in the same tree from t (root, size and
\* node records), and the plain one returns true exactly when the trace of
\* the stepped one reports v as found.
DeletesAgree(t, v) ==
    \A r \in {DeleteWithSteps(t, v)} : \A q \in {DeletePlain(t, v)} :
        /\ r.err = ""
        /\ q.tree.root = r.tree.root
        /\ q.tree.size = r.tree.size
        /\ q.tree.nodes = r.tree.nodes
        /\ CollectNodes(q.tree) = CollectNodes(r.tree)
        /\ q.ret <=> ReportsFound(r.steps)
        /\ ~q.ret <=> "del_not_found" \in StepKinds(r.steps)

\* The deletes from nine-node trees whose fixup goes up two levels.
DeepDeletesAgree ==
    /\ DeletesAgree(TwoClimbsTree, 20)
    /\ DeletesAgree(TwoClimbsTreeMirror, 70)

\* C35: from every reachable tree and for every value v, the plain
\* delete(v) and the stepped Operation::Delete(v) end in identical trees
\* (same shape, values, colours and size), and the plain delete returns
\* true exactly when the stepped trace reports the value as found; the call
\* that was made left that tree.
C35_DeletesAgree ==
    [][ /\ DeepDeletesAgree
        /\ last'.op \in DeleteOps =>
              /\ DeletesAgree(Tree, last'.val)
              /\ TreeNext = DeletePlain(Tree, last'.val).tree
              /\ last'.op = "delete" => (last'.ret <=> Search(Tree, last'.val)) ]_vars

\* A plain delete has just returned true and taken its value out of a tree
\* of seven nodes, of which some of the six left are Red.
C35_Witness ==
    /\ last.op = "delete" /\ last.ret
    /\ size = 6
    /\ nodes[last.val] = NoNode
    /\ \E k \in Present : nodes[k].color = "Red"

\* ---------------------------------------------------------------------
\* The step player at work: one action for update and one for each
\* control; the structures themselves stay as they are.

\* The structures and the observers, which the player leaves alone.
structures == <<rbvars, bst, stack, queue, arr, hist>>

\* self.update(stable_dt), at the start of every frame.
Update(d) ==
    /\ app' = UpdateApp(app, d)
    /\ last' = PlainCall("update", d, TRUE)
    /\ UNCHANGED structures

\* A button that executes an operation on a structure, with outcome o.
Execute(o) ==
    /\ app' = ExecuteOperation(app, o)
    /\ last' = PlainCall("execute", o.n, o.ok)
    /\ UNCHANGED structures

\* The Binary Search button.
BinarySearch(sorted, o) ==
    /\ app' = BinarySearchClicked(app, sorted, o)
    /\ last' = PlainCall("binary_search", o.n, sorted /\ o.ok)
    /\ UNCHANGED structures

\* A Randomize or Clear button.
ClearSteps ==
    /\ app' = ClearClicked(app)
    /\ last' = PlainCall("clear", 0, TRUE)
    /\ UNCHANGED structures

\* The animation controls, drawn only when ControlsShown.
SkipBack ==
    /\ ControlsShown(app)
    /\ app' = SkipBackClicked(app)
    /\ last' = PlainCall("skip_back", 0, TRUE)
    /\ UNCHANGED structures

PlayPause ==
    /\ ControlsShown(app)
    /\ app' = PlayPauseClicked(app)
    /\ last' = PlainCall("play_pause", 0, TRUE)
    /\ UNCHANGED structures

SkipForward ==
    /\ ControlsShown(app)
    /\ app' = StepForwardClicked(app)
    /\ last' = PlainCall("skip_forward", 0, TRUE)
    /\ UNCHANGED structures

StepForward ==
    /\ ControlsShown(app)
    /\ app' = StepForwardClicked(app)
    /\ last' = PlainCall("step_forward", 0, TRUE)
    /\ UNCHANGED structures

StepBack ==
    /\ ControlsShown(app)
    /\ app' = StepBackClicked(app)
    /\ last' = PlainCall("step_back", 0, TRUE)
    /\ UNCHANGED structures

SetSpeed(s) ==
    /\ ControlsShown(app)
    /\ app' = SpeedSet(app, s)
    /\ last' = PlainCall("set_speed", s, TRUE)
    /\ UNCHANGED structures

NextPlayer ==
    \/ \E d \in Deltas : Update(d)
    \/ \E o \in Outcomes : Execute(o)
    \/ \E sorted \in BOOLEAN : \E o \in Outcomes : BinarySearch(sorted, o)
    \/ ClearSteps
    \/ SkipBack
    \/ PlayPause
    \/ SkipForward
    \/ StepForward
    \/ StepBack
    \/ \E s \in Speeds : SetSpeed(s)

SpecPlayer == Init /\ [][NextPlayer]_vars

\* The playback left alone: an operation has just handed n Steps to the
\* player, at any speed the slider was left at, and from then on no button
\* is pressed.  ui() calls update in every frame and asks for the next
\* frame while playing, so update keeps being run.
InitPlayback ==
    /\ root = NIL
    /\ size = 0
    /\ nodes = EmptyTree.nodes
    /\ trip = NoTrip
    /\ bst = EmptyBst
    /\ stack = NewStack(StackCapacity)
    /\ queue = NewQueue(QueueCapacity)
    /\ arr = <<>>
    /\ hist = <<>>
    /\ \E n \in 1..MaxSteps : \E s \in Speeds :
          /\ app = ExecuteLoaded(SpeedSet(NewApp, s), n)
          /\ last = PlainCall("execute", n, TRUE)

NextPlayback == \E d \in Deltas : Update(d)

SpecPlayback == InitPlayback /\ [][NextPlayback]_vars /\ WF_vars(NextPlayback)

\* ---------------------------------------------------------------------
\* C36: in the step player, after any interleaving of executed operations
\* (returning Steps, an empty list or an error), button presses and update
\* ticks, whenever the Step list is not empty the current step index is a
\* position in it: current_step_index < current_steps.len().
C36_IndexInRange ==
    app.current_steps # <<>> => app.current_step_index < Len(app.current_steps)

\* The playback of the longest list has run to its last Step and update
\* has stopped it there.
C36_Witness ==
    /\ last.op = "update"
    /\ Len(app.current_steps) = MaxSteps
    /\ app.current_step_index = MaxSteps - 1
    /\ ~app.playing

\* ---------------------------------------------------------------------
\* C37: once an operation has returned a non-empty Step list and playback
\* is on, and no button is pressed, the update ticks advance the index by
\* exactly one Step at a time, exactly when the accumulated time reaches
\* the step duration, never past the last Step, and playback eventually
\* stops (playing becomes false) with the index on the last Step.

\* The time accumulated by the tick just made.
Accumulated == app.time_since_last_step + last'.val * app.animation_speed

\* The tick just made was due to move the playback.
TickDue == app.playing /\ Accumulated >= StepDuration

OnLastStep(a) == a.current_step_index = Len(a.current_steps) - 1

\* One tick: the index moves by one exactly when a tick is due before the
\* last Step, and playing is switched off exactly when one is due on it.
OneStepAtATime ==
    /\ app'.current_steps = app.current_steps
    /\ app'.current_step_index \in {app.current_step_index, app.current_step_index + 1}
    /\ app'.current_step_index < Len(app.current_steps)
    /\ app'.current_step_index = app.current_step_index + 1
          <=> TickDue /\ ~OnLastStep(app)
    /\ app'.playing <=> app.playing /\ ~(TickDue /\ OnLastStep(app))
    /\ app'.time_since_last_step =
          IF ~app.playing THEN app.time_since_last_step
          ELSE IF TickDue THEN 0 ELSE Accumulated

PlaybackStopped == ~app.playing /\ OnLastStep(app)

C37_PlaybackRunsToEnd == [][OneStepAtATime]_vars /\ <>[]PlaybackStopped

\* The longest list has been played to its end at the lowest speed, and
\* update has stopped the playback.
C37_Witness ==
    /\ last.op = "update"
    /\ Len(app.current_steps) = MaxSteps
    /\ app.animation_speed = 1
    /\ PlaybackStopped

\* ---------------------------------------------------------------------
\* C38: no control ever computes (number of Steps - 1) on an empty Step
\* list: with no Steps loaded (at start-up, after an operation failed or
\* after Clear) skip-forward and step-forward cannot be pressed, update
\* and every other call that leaves the list empty leave the step index
\* unchanged, and no unsigned subtraction underflows.

\* The calls that take current_steps.len() - 1 without a test of their own.
ForwardControls == {"skip_forward", "step_forward"}

NoStepsBefore == app.current_steps = <<>>

NoStepsAfter == app'.current_steps = <<>>

NoUnderflowOnEmpty ==
    /\ ~app'.underflow
    /\ NoStepsBefore => last'.op \notin ForwardControls
    /\ NoStepsBefore /\ NoStepsAfter
          => app'.current_step_index = app.current_step_index

C38_NoUnderflowOnEmpty == [][NoUnderflowOnEmpty]_vars

\* Clear was pressed in the middle of a playback: the list is empty, the
\* player still counts as playing at a stale index, and update has run.
C38_Witness ==
    /\ last.op = "update"
    /\ app.current_steps = <<>>
    /\ app.playing
    /\ app.current_step_index > 0
    /\ ~app.underflow

====
